---- MODULE Spec2Model ----
(***************************************************************************)
(* Authentication and RBAC core of the admin dashboard backend:            *)
(* JWT issuing and validation (app/core/security.py), the login, refresh   *)
(* and MFA verification handlers (app/api/v1/auth.py, app/api/v1/mfa.py),  *)
(* the authentication dependencies (app/api/deps.py), the MFA service      *)
(* (app/services/mfa_service.py), the permission service                   *)
(* (app/services/permission_service.py) and the user and role management   *)
(* handlers that change what those read (app/api/v1/users.py, roles.py).   *)
(*                                                                         *)
(* Time is counted in TOTP steps of 30 seconds.  A TOTP code is the pair   *)
(* (secret, step) it is derived from, a backup code is its text, a hash    *)
(* is the value it was computed from under a tag: HMAC and SHA-256 are     *)
(* taken to be collision free.                                             *)
(***************************************************************************)
EXTENDS Integers, Sequences, FiniteSets, TLC

VARIABLES
    users,      \* the users table: user id -> row
    roles,      \* the roles table with its role_permissions edges: role id -> row
    now,        \* the wall clock, in 30 second steps
    tokens,     \* the tokens clients hold
    resp,       \* the request last handled and the response it got
    reqs,       \* verify_mfa requests in flight (interleaved handling only)
    ticks       \* how often the clock has advanced

vars == <<users, roles, now, tokens, resp, reqs, ticks>>

----------------------------------------------------------------------------
(* Bounds of the model *)

StartTime == 10        \* the clock at the start
MaxTime == 31          \* the clock stops here
MaxTicks == 1          \* the clock advances at most this often
MaxTokens == 4         \* no handler mints once this many tokens exist
MaxBackupCodes == 2    \* backup codes stored per user
MaxRequests == 2       \* verify_mfa requests handled at the same time
MaxRoles == 3           \* rows of the roles table

(* Program constants, in 30 second steps *)

ACCESS_TOKEN_EXPIRE_MINUTES == 60      \* 30 minutes
REFRESH_TOKEN_EXPIRE_DAYS == 20160     \* 7 days
MFA_TEMP_TOKEN_EXPIRE == 10            \* timedelta(minutes=5) in login
TOTP_VALID_WINDOW == 1                 \* window: int = 1 in verify_totp
BACKUP_CODE_COUNT == 10                \* count: int = 10 in generate_backup_codes
VERIFICATION_TOKEN_EXPIRE == 2880   \* 24 hours
RESET_TOKEN_EXPIRE == 120           \* 1 hour

(* Small input domains *)

TickSteps == {1, MFA_TEMP_TOKEN_EXPIRE + 1}
CodeOffsets == {-10, -2, -1, 0, 1, 2}
UserIds == {"admin", "alice"}
RequestIds == 1..MaxRequests
Emails == {"admin@x.com", "alice@x.com", "nobody@x.com"}
Passwords == {"Passw0rd1", "Wrong0000"}
Secrets == {"SECRETA", "SECRETB"}
BackupCodeTexts == {"BKUPCODE", "RECOVERY"}
RoleIds == {1, 2}
PermissionSets == {{}, {"users.*", "products.read"}}

NoUser == "none"
NoRoleId == 0
NullText == [null |-> TRUE]

----------------------------------------------------------------------------
(* app/core/security.py *)

\* bcrypt: the digest embeds the salt, checkpw recomputes it from the plain text
hash_password(password) == [bcrypt |-> password]

\* bcrypt.checkpw: the comparison for a bcrypt digest; for any other text it
\* raises ValueError("Invalid salt")
bcrypt_checkpw(password, hashed_password) ==
    IF "bcrypt" \notin DOMAIN hashed_password
    THEN [raised |-> "ValueError"]
    ELSE [returned |-> hashed_password = hash_password(password)]

\* what a call of verify_password ends in: it returns what bcrypt.checkpw
\* returns, and has no handler for what bcrypt.checkpw raises
verify_password_call(plain_password, hashed_password) ==
    bcrypt_checkpw(plain_password, hashed_password)

\* verify_password returned True
verify_password(plain_password, hashed_password) ==
    verify_password_call(plain_password, hashed_password) = [returned |-> TRUE]

\* verify_password did not return: the exception reaches the handler's caller
verify_password_raises(plain_password, hashed_password) ==
    "raised" \in DOMAIN verify_password_call(plain_password, hashed_password)

\* create_access_token that encodes only the subject of data
create_access_token_sub_only(data, expires_delta) ==
    LET expire == IF expires_delta # 0
                  THEN now + expires_delta
                  ELSE now + ACCESS_TOKEN_EXPIRE_MINUTES
    IN  [claims |-> [exp |-> expire, iat |-> now, sub |-> data.sub], sig |-> "SECRET_KEY"]

\* data.copy(), then update with exp and iat, then jwt.encode with SECRET_KEY.
\* A missing or zero expires_delta is falsy and selects the default lifetime.
create_access_token(data, expires_delta) ==
    LET expire == IF expires_delta # 0
                  THEN now + expires_delta
                  ELSE now + ACCESS_TOKEN_EXPIRE_MINUTES
    IN  [claims |-> [exp |-> expire, iat |-> now] @@ data, sig |-> "SECRET_KEY"]

create_refresh_token(data) ==
    create_access_token(data, REFRESH_TOKEN_EXPIRE_DAYS)

NoPayload == [invalid |-> TRUE]

\* jwt.decode(token, SECRET_KEY, algorithms): the claims, or the exception it
\* raises.  A string that is not three segments has no signature to check; the
\* signature is checked before the claims; exp is rejected when exp < now.
jwt_decode(token) ==
    IF "sig" \notin DOMAIN token
    THEN [error |-> "JWTError"]
    ELSE IF token.sig # "SECRET_KEY"
    THEN [error |-> "JWTError"]
    ELSE IF token.claims.exp < now
    THEN [error |-> "ExpiredSignatureError"]
    ELSE [claims |-> token.claims]

\* JWTError and its subclasses
JWTErrors == {"JWTError", "ExpiredSignatureError", "JWTClaimsError"}

\* decode_token whose except clause does not cover ExpiredSignatureError
decode_token_expiry_raises(token) ==
    LET decoded == jwt_decode(token) IN
    IF "error" \notin DOMAIN decoded
    THEN decoded.claims
    ELSE IF decoded.error = "JWTError"
    THEN NoPayload
    ELSE [raised |-> decoded.error]

\* try: return jwt.decode(...)  except JWTError: return None
decode_token(token) ==
    LET decoded == jwt_decode(token) IN
    IF "error" \notin DOMAIN decoded
    THEN decoded.claims
    ELSE IF decoded.error \in JWTErrors
    THEN NoPayload
    ELSE [raised |-> decoded.error]

\* payload.get(key)
Get(payload, key, default) ==
    IF key \in DOMAIN payload THEN payload[key] ELSE default

----------------------------------------------------------------------------
(* app/services/mfa_service.py *)

\* pyotp.TOTP(secret).at(step)
TotpAt(secret, step) == [totp |-> secret, step |-> step]

BackupCode(text) == [backup |-> text]

\* verify_totp with a tolerance of ten steps instead of one
verify_totp_wide(secret, code) ==
    \E i \in (0 - 10)..10 : code = TotpAt(secret, now + i)

\* texts that are not base32: pyotp cannot decode them into a key
MalformedSecrets == {"not base32!"}

\* pyotp.TOTP(secret).verify(code, valid_window): the code is compared with
\* the codes of the steps now - valid_window .. now + valid_window; decoding a
\* malformed secret raises binascii.Error
pyotp_verify(secret, code, valid_window) ==
    IF secret \in MalformedSecrets
    THEN [raised |-> "binascii.Error"]
    ELSE [returned |-> \E i \in (0 - valid_window)..valid_window :
                            code = TotpAt(secret, now + i)]

\* verify_totp that compares with the code of the current step only
verify_totp_exact(secret, code) ==
    LET verified == pyotp_verify(secret, code, 0) IN
    IF "raised" \in DOMAIN verified THEN FALSE ELSE verified.returned

\* except Exception: return False
verify_totp(secret, code) ==
    LET verified == pyotp_verify(secret, code, TOTP_VALID_WINDOW) IN
    IF "raised" \in DOMAIN verified THEN FALSE ELSE verified.returned

hash_backup_code(code) == [sha256 |-> code]

encrypt_secret(secret) == [b64 |-> secret]

decrypt_secret(encrypted_secret) == encrypted_secret.b64

JsonDumps(list) == [json |-> list]

JsonLoads(text) == text.json

\* list.count
Occurrences(seq, x) == Cardinality({i \in 1..Len(seq) : seq[i] = x})

SeqContains(seq, x) == \E i \in 1..Len(seq) : seq[i] = x

\* list.remove(x): drops the first occurrence
SeqRemove(seq, x) ==
    LET i == CHOOSE k \in 1..Len(seq) :
                 seq[k] = x /\ \A j \in 1..(k - 1) : seq[j] # x
    IN  SubSeq(seq, 1, i - 1) \o SubSeq(seq, i + 1, Len(seq))

\* not user.mfa_secret: None, or the empty text that encrypt_secret("") gives
verify_user_totp(user, code) ==
    IF ~user.mfa_enabled \/ user.mfa_secret = NullText \/ user.mfa_secret = encrypt_secret("")
    THEN FALSE
    ELSE verify_totp(decrypt_secret(user.mfa_secret), code)

\* verify_user_backup_code without the removal of the matched hash
verify_user_backup_code_kept(user, code) ==
    IF ~user.mfa_enabled \/ user.mfa_backup_codes = NullText
    THEN [ok |-> FALSE, stored |-> user.mfa_backup_codes]
    ELSE [ok |-> SeqContains(JsonLoads(user.mfa_backup_codes), hash_backup_code(code)),
          stored |-> user.mfa_backup_codes]

\* the (result, stored text afterwards) of verify_user_backup_code on a row
verify_user_backup_code(user, code) ==
    IF ~user.mfa_enabled \/ user.mfa_backup_codes = NullText
    THEN [ok |-> FALSE, stored |-> user.mfa_backup_codes]
    ELSE LET hashed_codes == JsonLoads(user.mfa_backup_codes)
             code_hash == hash_backup_code(code)
         IN  IF SeqContains(hashed_codes, code_hash)
             THEN [ok |-> TRUE, stored |-> JsonDumps(SeqRemove(hashed_codes, code_hash))]
             ELSE [ok |-> FALSE, stored |-> user.mfa_backup_codes]

\* two outcomes of the random draws of generate_backup_codes
Batches ==
    {<<"AAAA2222", "BBBB3333", "CCCC4444", "DDDD5555", "EEEE6666",
       "FFFF7777", "GGGG8888", "HHHH9999", "JJJJ2345", "KKKK6789">>,
     <<"LLLL2222", "MMMM3333", "NNNN4444", "PPPP5555", "QQQQ6666",
       "RRRR7777", "SSSS8888", "TTTT9999", "UUUU2345", "VVVV6789">>}

\* count codes, the i-th being the i-th draw
generate_backup_codes(batch) ==
    [i \in 1..BACKUP_CODE_COUNT |-> BackupCode(batch[i])]

\* json.dumps([hash_backup_code(code) for code in backup_codes])
HashedCodes(backup_codes) ==
    JsonDumps([i \in 1..Len(backup_codes) |-> hash_backup_code(backup_codes[i])])

\* MFAService.enable_mfa: the row it commits
service_enable_mfa(user, secret, backup_codes) ==
    [user EXCEPT !.mfa_secret = encrypt_secret(secret),
                 !.mfa_enabled = TRUE,
                 !.mfa_backup_codes = HashedCodes(backup_codes)]

\* MFAService.disable_mfa that clears the secret and the codes, not the flag
service_disable_mfa_keeps_flag(user) ==
    [user EXCEPT !.mfa_secret = NullText,
                 !.mfa_backup_codes = NullText]

\* MFAService.disable_mfa that leaves the backup codes stored
service_disable_mfa_keeps_codes(user) ==
    [user EXCEPT !.mfa_enabled = FALSE,
                 !.mfa_secret = NullText]

\* MFAService.disable_mfa: the row it commits
service_disable_mfa(user) ==
    [user EXCEPT !.mfa_enabled = FALSE,
                 !.mfa_secret = NullText,
                 !.mfa_backup_codes = NullText]

----------------------------------------------------------------------------
(* app/services/permission_service.py *)

\* the roles table after the migration has seeded it
InitRoles ==
    [r \in RoleIds |->
        IF r = 1
        THEN [name |-> "super_admin", display_name |-> "Super Admin",
              description |-> "Full access", permissions |-> {"system.*"},
              is_system_role |-> TRUE]
        ELSE [name |-> "editor", display_name |-> "Editor",
              description |-> "Edits content", permissions |-> {"users.read"},
              is_system_role |-> FALSE]]

\* the permission names of the model, and str.split('.') of each
PermissionNames ==
    {"system.*", "users.*", "users.read", "users.delete", "users.read.all",
     "products.read", "users", "dashboard"}

Split(name) ==
    CASE name = "system.*" -> <<"system", "*">>
      [] name = "users.*" -> <<"users", "*">>
      [] name = "users.read" -> <<"users", "read">>
      [] name = "users.delete" -> <<"users", "delete">>
      [] name = "users.read.all" -> <<"users", "read", "all">>
      [] name = "products.read" -> <<"products", "read">>
      [] name = "users" -> <<"users">>
      [] name = "dashboard" -> <<"dashboard">>

\* get_user_permissions answering from the permission sets loaded at start-up
get_user_permissions_cached(user) ==
    IF user.role_id \notin DOMAIN InitRoles
    THEN {}
    ELSE InitRoles[user.role_id].permissions

\* user.role is the row the foreign key names, or None; db.refresh(user.role)
\* reloads it before its permissions are read
get_user_permissions(user) ==
    IF user.role_id \notin DOMAIN roles
    THEN {}
    ELSE roles[user.role_id].permissions

\* user_has_permission taking the part after the last '.' for the category
user_has_permission_last_part(user, permission) ==
    LET permissions == get_user_permissions(user) IN
    IF "system.*" \in permissions
    THEN TRUE
    ELSE IF permission \in permissions
    THEN TRUE
    ELSE IF Len(Split(permission)) > 1
    THEN LET category == Split(permission)[Len(Split(permission))]
         IN  \E p \in permissions : Split(p) = <<category, "*">>
    ELSE FALSE

\* '.' in permission: the name has more than one part; f"{category}.*" is in
\* permissions: one of them splits into the category and "*"
user_has_permission(user, permission) ==
    LET permissions == get_user_permissions(user) IN
    IF "system.*" \in permissions
    THEN TRUE
    ELSE IF permission \in permissions
    THEN TRUE
    ELSE IF Len(Split(permission)) > 1
    THEN LET category == Split(permission)[1]
         IN  \E p \in permissions : Split(p) = <<category, "*">>
    ELSE FALSE

----------------------------------------------------------------------------
(* The store *)

FindUserByEmail(email) ==
    IF \E id \in DOMAIN users : users[id].email = email
    THEN CHOOSE id \in DOMAIN users : users[id].email = email
    ELSE NoUser

FindUserById(id) == IF id \in DOMAIN users THEN id ELSE NoUser

\* a response; presented is the temp token a verify_mfa request carried
Response(op, presented, status_code, detail) ==
    [op |-> op, presented |-> presented, status_code |-> status_code, detail |-> detail,
     user |-> NoUser, access_token |-> {}, refresh_token |-> {}, temp_token |-> {}]

Minted(r) == r.access_token \cup r.refresh_token \cup r.temp_token

----------------------------------------------------------------------------
(* app/api/v1/auth.py: login *)

\* login without the check of email_verified
login_unverified_email(email, password) ==
    LET request == {}
        id == FindUserByEmail(email)
    IN  IF id = NoUser
        THEN Response("login", request, 401, "Incorrect email or password")
        ELSE
        LET user == users[id] IN
        IF ~verify_password(password, user.hashed_password)
        THEN Response("login", request, 401, "Incorrect email or password")
        ELSE IF ~user.is_active
        THEN Response("login", request, 403, "User account is inactive")
        ELSE IF user.mfa_enabled
        THEN [Response("login", request, 200, "MFA verification required")
                EXCEPT !.temp_token =
                    {create_access_token([sub |-> user.email, user_id |-> id,
                                          mfa_pending |-> TRUE],
                                         MFA_TEMP_TOKEN_EXPIRE)}]
        ELSE
        LET hasRole == user.role_id # NoRoleId /\ user.role_id \in DOMAIN roles
            role_name == IF hasRole THEN roles[user.role_id].name ELSE "user"
            permissions == IF hasRole THEN get_user_permissions(user) ELSE {}
            token_data == [sub |-> user.email, user_id |-> id,
                           role |-> role_name, permissions |-> permissions]
        IN  [Response("login", request, 200, "bearer")
                EXCEPT !.access_token = {create_access_token(token_data, 0)},
                       !.refresh_token = {create_refresh_token(token_data)}]

\* login that leaves the permissions of token_data at their default
login_default_permissions(email, password) ==
    LET request == {}
        id == FindUserByEmail(email)
    IN  IF id = NoUser
        THEN Response("login", request, 401, "Incorrect email or password")
        ELSE
        LET user == users[id] IN
        IF ~verify_password(password, user.hashed_password)
        THEN Response("login", request, 401, "Incorrect email or password")
        ELSE IF ~user.is_active
        THEN Response("login", request, 403, "User account is inactive")
        ELSE IF ~user.email_verified
        THEN Response("login", request, 403, "Please verify your email before logging in")
        ELSE IF user.mfa_enabled
        THEN [Response("login", request, 200, "MFA verification required")
                EXCEPT !.temp_token =
                    {create_access_token([sub |-> user.email, user_id |-> id,
                                          mfa_pending |-> TRUE],
                                         MFA_TEMP_TOKEN_EXPIRE)}]
        ELSE
        LET hasRole == user.role_id # NoRoleId /\ user.role_id \in DOMAIN roles
            role_name == IF hasRole THEN roles[user.role_id].name ELSE "user"
            permissions == {}
            token_data == [sub |-> user.email, user_id |-> id,
                           role |-> role_name, permissions |-> permissions]
        IN  [Response("login", request, 200, "bearer")
                EXCEPT !.access_token = {create_access_token(token_data, 0)},
                       !.refresh_token = {create_refresh_token(token_data)}]

\* login that tests is_active and email_verified before the password
login_status_first(email, password) ==
    LET request == {}
        id == FindUserByEmail(email)
    IN  IF id = NoUser
        THEN Response("login", request, 401, "Incorrect email or password")
        ELSE
        LET user == users[id] IN
        IF ~user.is_active
        THEN Response("login", request, 403, "User account is inactive")
        ELSE IF ~user.email_verified
        THEN Response("login", request, 403, "Please verify your email before logging in")
        ELSE IF ~verify_password(password, user.hashed_password)
        THEN Response("login", request, 401, "Incorrect email or password")
        ELSE IF user.mfa_enabled
        THEN [Response("login", request, 200, "MFA verification required")
                EXCEPT !.temp_token =
                    {create_access_token([sub |-> user.email, user_id |-> id,
                                          mfa_pending |-> TRUE],
                                         MFA_TEMP_TOKEN_EXPIRE)}]
        ELSE
        LET hasRole == user.role_id # NoRoleId /\ user.role_id \in DOMAIN roles
            role_name == IF hasRole THEN roles[user.role_id].name ELSE "user"
            permissions == IF hasRole THEN get_user_permissions(user) ELSE {}
            token_data == [sub |-> user.email, user_id |-> id,
                           role |-> role_name, permissions |-> permissions]
        IN  [Response("login", request, 200, "bearer")
                EXCEPT !.access_token = {create_access_token(token_data, 0)},
                       !.refresh_token = {create_refresh_token(token_data)}]

login(email, password) ==
    LET request == {}
        id == FindUserByEmail(email)
    IN  IF id = NoUser
        THEN Response("login", request, 401, "Incorrect email or password")
        ELSE
        LET user == users[id] IN
        IF verify_password_raises(password, user.hashed_password)
        THEN Response("login", request, 500, "Internal server error")
        ELSE IF ~verify_password(password, user.hashed_password)
        THEN Response("login", request, 401, "Incorrect email or password")
        ELSE IF ~user.is_active
        THEN Response("login", request, 403, "User account is inactive")
        ELSE IF ~user.email_verified
        THEN Response("login", request, 403, "Please verify your email before logging in")
        ELSE IF user.mfa_enabled
        THEN [Response("login", request, 200, "MFA verification required")
                EXCEPT !.temp_token =
                    {create_access_token([sub |-> user.email, user_id |-> id,
                                          mfa_pending |-> TRUE],
                                         MFA_TEMP_TOKEN_EXPIRE)}]
        ELSE
        LET hasRole == user.role_id # NoRoleId /\ user.role_id \in DOMAIN roles
            role_name == IF hasRole THEN roles[user.role_id].name ELSE "user"
            permissions == IF hasRole THEN get_user_permissions(user) ELSE {}
            token_data == [sub |-> user.email, user_id |-> id,
                           role |-> role_name, permissions |-> permissions]
        IN  [Response("login", request, 200, "bearer")
                EXCEPT !.access_token = {create_access_token(token_data, 0)},
                       !.refresh_token = {create_refresh_token(token_data)}]

\* A handler's response is delivered; the tokens in it are now held by clients
Deliver(r) ==
    /\ Cardinality(tokens \cup Minted(r)) <= MaxTokens
    /\ tokens' = tokens \cup Minted(r)
    /\ resp' = r

Login(email, password) ==
    /\ Deliver(login(email, password))
    /\ UNCHANGED <<users, roles, now, reqs, ticks>>

----------------------------------------------------------------------------
(* app/api/deps.py *)

\* the user id get_current_user returns, or the HTTPException it raises
get_current_user(token) ==
    LET payload == decode_token(token) IN
    IF payload = NoPayload
    THEN [status_code |-> 401, detail |-> "Could not validate credentials", user |-> NoUser]
    ELSE
    LET user_email == Get(payload, "sub", NoUser) IN
    IF user_email = NoUser
    THEN [status_code |-> 401, detail |-> "Could not validate credentials", user |-> NoUser]
    ELSE
    LET id == FindUserByEmail(user_email) IN
    IF id = NoUser
    THEN [status_code |-> 404, detail |-> "User not found", user |-> NoUser]
    ELSE IF ~users[id].is_active
    THEN [status_code |-> 403, detail |-> "User account is inactive", user |-> NoUser]
    ELSE [status_code |-> 200, detail |-> "", user |-> id]

get_current_superuser(token) ==
    LET current_user == get_current_user(token) IN
    IF current_user.status_code # 200
    THEN current_user
    ELSE IF ~users[current_user.user].is_superuser
    THEN [status_code |-> 403, detail |-> "Not enough permissions. Superuser access required.",
          user |-> NoUser]
    ELSE current_user

\* a token that was not signed with SECRET_KEY: its claims are what its maker likes
ForgedToken ==
    [claims |-> [exp |-> MaxTime + 1, iat |-> StartTime, sub |-> "alice@x.com",
                 user_id |-> "alice", mfa_pending |-> TRUE],
     sig |-> "attacker"]

\* what a client can put in a request: a token it was given, or one it made itself
Presentable == tokens \cup {ForgedToken}

----------------------------------------------------------------------------
(* app/api/v1/auth.py: get_me, the plainest endpoint behind get_current_user *)

get_me(token) ==
    LET current_user == get_current_user(token) IN
    [Response("get_me", {}, current_user.status_code, current_user.detail)
        EXCEPT !.user = current_user.user]

GetMe(token) ==
    /\ Deliver(get_me(token))
    /\ UNCHANGED <<users, roles, now, reqs, ticks>>

----------------------------------------------------------------------------
(* app/api/v1/auth.py: refresh_token *)

\* refresh_token that only checks that the user exists
refresh_token_inactive_user(token) ==
    LET request == {}
        payload == decode_token(token)
    IN  IF payload = NoPayload
        THEN Response("refresh", request, 401, "Invalid refresh token")
        ELSE
        LET user_email == Get(payload, "sub", NoUser) IN
        IF user_email = NoUser
        THEN Response("refresh", request, 401, "Invalid refresh token")
        ELSE
        LET id == FindUserByEmail(user_email) IN
        IF id = NoUser
        THEN Response("refresh", request, 401, "User not found or inactive")
        ELSE [Response("refresh", request, 200, "bearer")
                EXCEPT !.user = id,
                       !.access_token =
                            {create_access_token([sub |-> users[id].email, user_id |-> id], 0)}]

refresh_token(token) ==
    LET request == {}
        payload == decode_token(token)
    IN  IF payload = NoPayload
        THEN Response("refresh", request, 401, "Invalid refresh token")
        ELSE
        LET user_email == Get(payload, "sub", NoUser) IN
        IF user_email = NoUser
        THEN Response("refresh", request, 401, "Invalid refresh token")
        ELSE
        LET id == FindUserByEmail(user_email) IN
        IF id = NoUser \/ ~users[id].is_active
        THEN Response("refresh", request, 401, "User not found or inactive")
        ELSE [Response("refresh", request, 200, "bearer")
                EXCEPT !.user = id,
                       !.access_token =
                            {create_access_token([sub |-> users[id].email, user_id |-> id], 0)}]

RefreshToken(token) ==
    /\ Deliver(refresh_token(token))
    /\ UNCHANGED <<users, roles, now, reqs, ticks>>

----------------------------------------------------------------------------
(* app/api/v1/mfa.py: verify_mfa *)

\* the tokens verify_mfa returns once the code was accepted
verify_mfa_tokens(presented, id) ==
    LET token_data == [sub |-> users[id].email, user_id |-> id, mfa_verified |-> TRUE]
    IN  [Response("verify_mfa", presented, 200, "bearer")
            EXCEPT !.user = id,
                   !.access_token = {create_access_token(token_data, 0)},
                   !.refresh_token = {create_refresh_token(token_data)}]

\* the user the temp token names, or NoUser: lines 206-227
verify_mfa_user(temp_token) ==
    LET payload == decode_token(temp_token) IN
    IF payload = NoPayload
    THEN [status_code |-> 401, detail |-> "Invalid or expired token", user |-> NoUser]
    ELSE
    LET user_id == Get(payload, "user_id", NoUser) IN
    IF user_id = NoUser
    THEN [status_code |-> 401, detail |-> "Invalid token", user |-> NoUser]
    ELSE IF FindUserById(user_id) = NoUser
    THEN [status_code |-> 401, detail |-> "User not found", user |-> NoUser]
    ELSE [status_code |-> 200, detail |-> "", user |-> user_id]

\* lines 229-260 on the row the request loaded: the response, and the text the
\* handler writes to mfa_backup_codes when commit is set
verify_mfa_codes(temp_token, id, user, code) ==
    IF verify_user_totp(user, code)
    THEN [response |-> verify_mfa_tokens({temp_token}, id),
          user |-> id, commit |-> FALSE, stored |-> user.mfa_backup_codes]
    ELSE
    LET backup == verify_user_backup_code(user, code) IN
    IF backup.ok
    THEN [response |-> verify_mfa_tokens({temp_token}, id),
          user |-> id, commit |-> TRUE, stored |-> backup.stored]
    ELSE [response |-> Response("verify_mfa", {temp_token}, 401, "Invalid MFA code"),
          user |-> id, commit |-> FALSE, stored |-> user.mfa_backup_codes]

\* the whole handler, run without another request in between
verify_mfa(temp_token, code) ==
    LET found == verify_mfa_user(temp_token) IN
    IF found.status_code # 200
    THEN [response |-> Response("verify_mfa", {temp_token}, found.status_code, found.detail),
          user |-> NoUser, commit |-> FALSE, stored |-> NullText]
    ELSE verify_mfa_codes(temp_token, found.user, users[found.user], code)

\* db.commit() of the request's session: UPDATE users SET mfa_backup_codes WHERE id
Commit(result) ==
    IF result.commit /\ result.user \in DOMAIN users
    THEN [users EXCEPT ![result.user].mfa_backup_codes = result.stored]
    ELSE users

VerifyMfa(temp_token, code) ==
    LET result == verify_mfa(temp_token, code) IN
    /\ Deliver(result.response)
    /\ users' = Commit(result)
    /\ UNCHANGED <<roles, now, reqs, ticks>>

----------------------------------------------------------------------------
(* app/api/v1/mfa.py: setup_mfa, enable_mfa, disable_mfa and              *)
(* regenerate_backup_codes.  Each gives the response and the users table  *)
(* after its commit; secret and batch are the random draws of the call.   *)

\* setup_mfa that keeps the proposed secret in the user's row
setup_mfa_stores_secret(token, secret, batch) ==
    LET current_user == get_current_user(token) IN
    IF current_user.status_code # 200
    THEN [response |-> Response("setup_mfa", {}, current_user.status_code, current_user.detail),
          users |-> users]
    ELSE IF users[current_user.user].mfa_enabled
    THEN [response |-> [Response("setup_mfa", {}, 400, "MFA is already enabled")
                            EXCEPT !.user = current_user.user],
          users |-> users]
    ELSE [response |-> [Response("setup_mfa", {}, 200, "") EXCEPT !.user = current_user.user]
                        @@ [secret |-> secret, backup_codes |-> generate_backup_codes(batch)],
          users |-> [users EXCEPT ![current_user.user].mfa_secret = encrypt_secret(secret)]]

setup_mfa(token, secret, batch) ==
    LET current_user == get_current_user(token) IN
    IF current_user.status_code # 200
    THEN [response |-> Response("setup_mfa", {}, current_user.status_code, current_user.detail),
          users |-> users]
    ELSE IF users[current_user.user].mfa_enabled
    THEN [response |-> [Response("setup_mfa", {}, 400, "MFA is already enabled")
                            EXCEPT !.user = current_user.user],
          users |-> users]
    ELSE [response |-> [Response("setup_mfa", {}, 200, "") EXCEPT !.user = current_user.user]
                        @@ [secret |-> secret, backup_codes |-> generate_backup_codes(batch)],
          users |-> users]

SetupMfa(token, secret, batch) ==
    LET result == setup_mfa(token, secret, batch) IN
    /\ Deliver(result.response)
    /\ users' = result.users
    /\ UNCHANGED <<roles, now, reqs, ticks>>

\* enable_mfa without the check that MFA is not enabled yet
enable_mfa_again(token, secret, code, batch) ==
    LET current_user == get_current_user(token)
        request == [secret |-> secret, code |-> code]
    IN  IF current_user.status_code # 200
        THEN [response |-> Response("enable_mfa", {}, current_user.status_code,
                                    current_user.detail) @@ request,
              users |-> users]
        ELSE IF ~verify_totp(secret, code)
        THEN [response |-> [Response("enable_mfa", {}, 401, "Invalid verification code")
                                EXCEPT !.user = current_user.user] @@ request,
              users |-> users]
        ELSE [response |-> [Response("enable_mfa", {}, 200, "MFA enabled successfully")
                                EXCEPT !.user = current_user.user] @@ request,
              users |-> [users EXCEPT ![current_user.user] =
                            service_enable_mfa(users[current_user.user], secret,
                                               generate_backup_codes(batch))]]

\* secret and code are the query parameters; batch is the draw of line 120
enable_mfa(token, secret, code, batch) ==
    LET current_user == get_current_user(token)
        request == [secret |-> secret, code |-> code]
    IN  IF current_user.status_code # 200
        THEN [response |-> Response("enable_mfa", {}, current_user.status_code,
                                    current_user.detail) @@ request,
              users |-> users]
        ELSE IF users[current_user.user].mfa_enabled
        THEN [response |-> [Response("enable_mfa", {}, 400, "MFA is already enabled")
                                EXCEPT !.user = current_user.user] @@ request,
              users |-> users]
        ELSE IF ~verify_totp(secret, code)
        THEN [response |-> [Response("enable_mfa", {}, 401, "Invalid verification code")
                                EXCEPT !.user = current_user.user] @@ request,
              users |-> users]
        ELSE [response |-> [Response("enable_mfa", {}, 200, "MFA enabled successfully")
                                EXCEPT !.user = current_user.user] @@ request,
              users |-> [users EXCEPT ![current_user.user] =
                            service_enable_mfa(users[current_user.user], secret,
                                               generate_backup_codes(batch))]]

EnableMfa(token, secret, code, batch) ==
    LET result == enable_mfa(token, secret, code, batch) IN
    /\ Deliver(result.response)
    /\ users' = result.users
    /\ UNCHANGED <<roles, now, reqs, ticks>>

\* disable_mfa without the password verification of lines 155-159
disable_mfa_no_password(token, password) ==
    LET current_user == get_current_user(token) IN
    IF current_user.status_code # 200
    THEN [response |-> Response("disable_mfa", {}, current_user.status_code,
                                current_user.detail),
          users |-> users]
    ELSE IF ~users[current_user.user].mfa_enabled
    THEN [response |-> [Response("disable_mfa", {}, 400, "MFA is not enabled")
                            EXCEPT !.user = current_user.user],
          users |-> users]
    ELSE [response |-> [Response("disable_mfa", {}, 200, "MFA disabled successfully")
                            EXCEPT !.user = current_user.user],
          users |-> [users EXCEPT ![current_user.user] =
                        service_disable_mfa(users[current_user.user])]]

disable_mfa(token, password) ==
    LET current_user == get_current_user(token) IN
    IF current_user.status_code # 200
    THEN [response |-> Response("disable_mfa", {}, current_user.status_code,
                                current_user.detail),
          users |-> users]
    ELSE IF ~users[current_user.user].mfa_enabled
    THEN [response |-> [Response("disable_mfa", {}, 400, "MFA is not enabled")
                            EXCEPT !.user = current_user.user],
          users |-> users]
    ELSE IF verify_password_raises(password, users[current_user.user].hashed_password)
    THEN [response |-> [Response("disable_mfa", {}, 500, "Internal server error")
                            EXCEPT !.user = current_user.user],
          users |-> users]
    ELSE IF ~verify_password(password, users[current_user.user].hashed_password)
    THEN [response |-> [Response("disable_mfa", {}, 401, "Incorrect password")
                            EXCEPT !.user = current_user.user],
          users |-> users]
    ELSE [response |-> [Response("disable_mfa", {}, 200, "MFA disabled successfully")
                            EXCEPT !.user = current_user.user],
          users |-> [users EXCEPT ![current_user.user] =
                        service_disable_mfa(users[current_user.user])]]

\* the response is kept with the password of the request body
DisableMfa(token, password) ==
    LET result == disable_mfa(token, password) IN
    /\ Deliver(result.response @@ [password |-> password])
    /\ users' = result.users
    /\ UNCHANGED <<roles, now, reqs, ticks>>

\* regenerate_backup_codes that adds the new hashes to the stored list
regenerate_backup_codes_appends(token, password, batch) ==
    LET current_user == get_current_user(token) IN
    IF current_user.status_code # 200
    THEN [response |-> Response("regenerate_backup_codes", {}, current_user.status_code,
                                current_user.detail),
          users |-> users]
    ELSE IF ~users[current_user.user].mfa_enabled
    THEN [response |-> [Response("regenerate_backup_codes", {}, 400, "MFA is not enabled")
                            EXCEPT !.user = current_user.user],
          users |-> users]
    ELSE IF ~verify_password(password, users[current_user.user].hashed_password)
    THEN [response |-> [Response("regenerate_backup_codes", {}, 401, "Incorrect password")
                            EXCEPT !.user = current_user.user],
          users |-> users]
    ELSE [response |-> [Response("regenerate_backup_codes", {}, 200,
                                 "Backup codes regenerated successfully")
                            EXCEPT !.user = current_user.user]
                        @@ [backup_codes |-> generate_backup_codes(batch)],
          users |-> [users EXCEPT ![current_user.user].mfa_backup_codes =
                        JsonDumps(JsonLoads(users[current_user.user].mfa_backup_codes)
                                    \o JsonLoads(HashedCodes(generate_backup_codes(batch))))]]

regenerate_backup_codes(token, password, batch) ==
    LET current_user == get_current_user(token) IN
    IF current_user.status_code # 200
    THEN [response |-> Response("regenerate_backup_codes", {}, current_user.status_code,
                                current_user.detail),
          users |-> users]
    ELSE IF ~users[current_user.user].mfa_enabled
    THEN [response |-> [Response("regenerate_backup_codes", {}, 400, "MFA is not enabled")
                            EXCEPT !.user = current_user.user],
          users |-> users]
    ELSE IF verify_password_raises(password, users[current_user.user].hashed_password)
    THEN [response |-> [Response("regenerate_backup_codes", {}, 500, "Internal server error")
                            EXCEPT !.user = current_user.user],
          users |-> users]
    ELSE IF ~verify_password(password, users[current_user.user].hashed_password)
    THEN [response |-> [Response("regenerate_backup_codes", {}, 401, "Incorrect password")
                            EXCEPT !.user = current_user.user],
          users |-> users]
    ELSE [response |-> [Response("regenerate_backup_codes", {}, 200,
                                 "Backup codes regenerated successfully")
                            EXCEPT !.user = current_user.user]
                        @@ [backup_codes |-> generate_backup_codes(batch)],
          users |-> [users EXCEPT ![current_user.user].mfa_backup_codes =
                        HashedCodes(generate_backup_codes(batch))]]

\* the response is kept with the password of the request body
RegenerateBackupCodes(token, password, batch) ==
    LET result == regenerate_backup_codes(token, password, batch) IN
    /\ Deliver(result.response @@ [password |-> password])
    /\ users' = result.users
    /\ UNCHANGED <<roles, now, reqs, ticks>>

(* verify_mfa handled by several workers at once.  Each request has its own  *)
(* session: the row is read at line 222, the codes are checked on that copy  *)
(* and the commit at mfa_service.py line 263 writes the column back.         *)

VerifyMfaLoad(r, temp_token, code) ==
    LET found == verify_mfa_user(temp_token) IN
    /\ r \notin DOMAIN reqs
    /\ IF found.status_code # 200
       THEN /\ Deliver(Response("verify_mfa", {temp_token}, found.status_code, found.detail))
            /\ UNCHANGED reqs
       ELSE /\ reqs' = [q \in DOMAIN reqs \cup {r} |->
                            IF q = r
                            THEN [temp_token |-> temp_token, code |-> code,
                                  user |-> found.user, row |-> users[found.user]]
                            ELSE reqs[q]]
            /\ UNCHANGED <<tokens, resp>>
    /\ UNCHANGED <<users, roles, now, ticks>>

VerifyMfaCommit(r) ==
    /\ r \in DOMAIN reqs
    /\ LET q == reqs[r]
           result == verify_mfa_codes(q.temp_token, q.user, q.row, q.code)
       IN  /\ Deliver(result.response)
           /\ users' = Commit(result)
    /\ reqs' = [q \in DOMAIN reqs \ {r} |-> reqs[q]]
    /\ UNCHANGED <<roles, now, ticks>>

----------------------------------------------------------------------------
(* app/api/v1/users.py and roles.py: what an administrator changes *)

toggle_user_status(token, user_id, is_active) ==
    LET request == {}
        current_user == get_current_superuser(token)
    IN  IF current_user.status_code # 200
        THEN Response("toggle_user_status", request, current_user.status_code, current_user.detail)
        ELSE IF user_id = current_user.user /\ ~is_active
        THEN Response("toggle_user_status", request, 400, "Cannot deactivate your own account")
        ELSE IF FindUserById(user_id) = NoUser
        THEN Response("toggle_user_status", request, 404, "User not found")
        ELSE [Response("toggle_user_status", request, 200, "") EXCEPT !.user = user_id]

ToggleUserStatus(token, user_id, is_active) ==
    LET r == toggle_user_status(token, user_id, is_active) IN
    /\ Deliver(r)
    /\ users' = IF r.status_code = 200
                THEN [users EXCEPT ![user_id].is_active = is_active]
                ELSE users
    /\ UNCHANGED <<roles, now, reqs, ticks>>

delete_user(token, user_id) ==
    LET request == {}
        current_user == get_current_superuser(token)
    IN  IF current_user.status_code # 200
        THEN Response("delete_user", request, current_user.status_code, current_user.detail)
        ELSE IF user_id = current_user.user
        THEN Response("delete_user", request, 400, "Cannot delete your own account")
        ELSE IF FindUserById(user_id) = NoUser
        THEN Response("delete_user", request, 404, "User not found")
        ELSE [Response("delete_user", request, 200, "") EXCEPT !.user = user_id]

DeleteUser(token, user_id) ==
    LET r == delete_user(token, user_id) IN
    /\ Deliver(r)
    /\ users' = IF r.status_code = 200
                THEN [id \in DOMAIN users \ {user_id} |-> users[id]]
                ELSE users
    /\ UNCHANGED <<roles, now, reqs, ticks>>

assign_user_role(token, user_id, role_id) ==
    LET request == {}
        current_user == get_current_superuser(token)
    IN  IF current_user.status_code # 200
        THEN Response("assign_user_role", request, current_user.status_code, current_user.detail)
        ELSE IF FindUserById(user_id) = NoUser
        THEN Response("assign_user_role", request, 404, "User not found")
        ELSE IF role_id \notin DOMAIN roles
        THEN Response("assign_user_role", request, 404, "Role not found")
        ELSE [Response("assign_user_role", request, 200, "") EXCEPT !.user = user_id]

AssignUserRole(token, user_id, role_id) ==
    LET r == assign_user_role(token, user_id, role_id) IN
    /\ Deliver(r)
    /\ users' = IF r.status_code = 200
                THEN [users EXCEPT ![user_id].role_id = role_id]
                ELSE users
    /\ UNCHANGED <<roles, now, reqs, ticks>>

\* every id in the request names a seeded permission, so the length check passes
assign_permissions(token, role_id, permissions) ==
    LET request == {}
        current_user == get_current_superuser(token)
    IN  IF current_user.status_code # 200
        THEN Response("assign_permissions", request, current_user.status_code, current_user.detail)
        ELSE IF role_id \notin DOMAIN roles
        THEN Response("assign_permissions", request, 404, "Role not found")
        ELSE Response("assign_permissions", request, 200, "")

\* the response is kept with the role_id of the request path
AssignPermissions(token, role_id, permissions) ==
    LET r == assign_permissions(token, role_id, permissions) IN
    /\ Deliver(r @@ [role_id |-> role_id])
    /\ roles' = IF r.status_code = 200
                THEN [roles EXCEPT ![role_id].permissions = permissions]
                ELSE roles
    /\ UNCHANGED <<users, now, reqs, ticks>>

(* app/api/v1/roles.py: create_role, update_role and delete_role.  Each gives *)
(* the response and the roles table after its commit.                         *)

\* the fields of the RoleUpdate schema; pydantic drops every other field of
\* the request body
RoleUpdateFields == {"display_name", "description"}

\* role_update.dict(exclude_unset=True)
UpdateData(role_update) ==
    [field \in DOMAIN role_update \cap RoleUpdateFields |-> role_update[field]]

\* the users whose role_id is the role's id
RoleUsers(role_id) == {id \in DOMAIN users : users[id].role_id = role_id}

create_role(token, name, display_name, description) ==
    LET current_user == get_current_superuser(token)
        request == Response("create_role", {}, 0, "") @@ [role_id |-> NoRoleId]
    IN  IF current_user.status_code # 200
        THEN [response |-> [request EXCEPT !.status_code = current_user.status_code,
                                           !.detail = current_user.detail],
              roles |-> roles]
        ELSE IF \E r \in DOMAIN roles : roles[r].name = name
        THEN [response |-> [request EXCEPT !.status_code = 400,
                                           !.detail = "Role with this name already exists"],
              roles |-> roles]
        ELSE LET id == CHOOSE r \in 1..(1 + Cardinality(DOMAIN roles)) : r \notin DOMAIN roles
                 role == [name |-> name, display_name |-> display_name,
                          description |-> description, permissions |-> {},
                          is_system_role |-> FALSE]
             IN  [response |-> [request EXCEPT !.status_code = 201, !.role_id = id],
                  roles |-> [r \in DOMAIN roles \cup {id} |->
                                IF r = id THEN role ELSE roles[r]]]

CreateRole(token, name, display_name, description) ==
    LET result == create_role(token, name, display_name, description) IN
    /\ Cardinality(DOMAIN result.roles) <= MaxRoles
    /\ Deliver(result.response)
    /\ roles' = result.roles
    /\ UNCHANGED <<users, now, reqs, ticks>>

update_role(token, role_id, role_update) ==
    LET current_user == get_current_superuser(token)
        request == Response("update_role", {}, 0, "") @@ [role_id |-> role_id]
    IN  IF current_user.status_code # 200
        THEN [response |-> [request EXCEPT !.status_code = current_user.status_code,
                                           !.detail = current_user.detail],
              roles |-> roles]
        ELSE IF role_id \notin DOMAIN roles
        THEN [response |-> [request EXCEPT !.status_code = 404, !.detail = "Role not found"],
              roles |-> roles]
        ELSE IF roles[role_id].is_system_role
        THEN [response |-> [request EXCEPT !.status_code = 403,
                                           !.detail = "Cannot update system roles"],
              roles |-> roles]
        ELSE LET update_data == UpdateData(role_update)
                 role == [field \in DOMAIN roles[role_id] |->
                            IF field \in DOMAIN update_data
                            THEN update_data[field]
                            ELSE roles[role_id][field]]
             IN  [response |-> [request EXCEPT !.status_code = 200],
                  roles |-> [roles EXCEPT ![role_id] = role]]

UpdateRole(token, role_id, role_update) ==
    LET result == update_role(token, role_id, role_update) IN
    /\ Deliver(result.response)
    /\ roles' = result.roles
    /\ UNCHANGED <<users, now, reqs, ticks>>

\* delete_role without the count of the users of the role
delete_role_with_users(token, role_id) ==
    LET current_user == get_current_superuser(token)
        request == Response("delete_role", {}, 0, "") @@ [role_id |-> role_id]
    IN  IF current_user.status_code # 200
        THEN [response |-> [request EXCEPT !.status_code = current_user.status_code,
                                           !.detail = current_user.detail],
              roles |-> roles]
        ELSE IF role_id \notin DOMAIN roles
        THEN [response |-> [request EXCEPT !.status_code = 404, !.detail = "Role not found"],
              roles |-> roles]
        ELSE IF roles[role_id].is_system_role
        THEN [response |-> [request EXCEPT !.status_code = 403,
                                           !.detail = "Cannot delete system roles"],
              roles |-> roles]
        ELSE [response |-> [request EXCEPT !.status_code = 200, !.detail = "Role deleted"],
              roles |-> [r \in DOMAIN roles \ {role_id} |-> roles[r]]]

delete_role(token, role_id) ==
    LET current_user == get_current_superuser(token)
        request == Response("delete_role", {}, 0, "") @@ [role_id |-> role_id]
    IN  IF current_user.status_code # 200
        THEN [response |-> [request EXCEPT !.status_code = current_user.status_code,
                                           !.detail = current_user.detail],
              roles |-> roles]
        ELSE IF role_id \notin DOMAIN roles
        THEN [response |-> [request EXCEPT !.status_code = 404, !.detail = "Role not found"],
              roles |-> roles]
        ELSE IF roles[role_id].is_system_role
        THEN [response |-> [request EXCEPT !.status_code = 403,
                                           !.detail = "Cannot delete system roles"],
              roles |-> roles]
        ELSE IF Cardinality(RoleUsers(role_id)) > 0
        THEN [response |-> [request EXCEPT !.status_code = 400,
                                           !.detail = "Cannot delete role with assigned user(s)"],
              roles |-> roles]
        ELSE [response |-> [request EXCEPT !.status_code = 200, !.detail = "Role deleted"],
              roles |-> [r \in DOMAIN roles \ {role_id} |-> roles[r]]]

DeleteRole(token, role_id) ==
    LET result == delete_role(token, role_id) IN
    /\ Deliver(result.response)
    /\ roles' = result.roles
    /\ UNCHANGED <<users, now, reqs, ticks>>

(* app/api/v1/auth.py: register_user, verify_email, resend_verification,    *)
(* forgot_password and reset_password; app/services/email_service.py.       *)
(* Each handler gives the response and the users table after its commit.    *)

\* the outcomes of secrets.token_urlsafe(32)
EmailTokens == {[urlsafe |-> "A"], [urlsafe |-> "B"]}

\* EmailService.is_token_valid
is_token_valid(token_expires) ==
    IF token_expires = NullText THEN FALSE ELSE now < token_expires.at

\* pydantic's EmailStr gives the address with its domain in lower case and
\* its local part as it was typed
EmailStr(text) ==
    CASE text = "alice@X.COM" -> "alice@x.com"
      [] text = "nobody@X.COM" -> "nobody@x.com"
      [] OTHER -> text

\* str.lower on the addresses of the model
Lower(text) ==
    CASE text = "alice@X.COM" -> "alice@x.com"
      [] text = "Alice@x.com" -> "alice@x.com"
      [] text = "nobody@X.COM" -> "nobody@x.com"
      [] OTHER -> text

\* the id the database gives the user that registers
NewUserIds == {"user3"}

FindUserByVerificationToken(token) ==
    IF \E id \in DOMAIN users : users[id].verification_token = token
    THEN CHOOSE id \in DOMAIN users : users[id].verification_token = token
    ELSE NoUser

FindUserByResetToken(token) ==
    IF \E id \in DOMAIN users : users[id].reset_token = token
    THEN CHOOSE id \in DOMAIN users : users[id].reset_token = token
    ELSE NoUser

\* a row of the users table with the email verification and password reset columns
AccountRow(email, password, verified, verification_token, verification_token_expires) ==
    [email |-> email,
     hashed_password |-> hash_password(password),
     is_active |-> TRUE,
     is_superuser |-> FALSE,
     email_verified |-> verified,
     role_id |-> NoRoleId,
     mfa_enabled |-> FALSE,
     mfa_secret |-> NullText,
     mfa_backup_codes |-> NullText,
     verification_token |-> verification_token,
     verification_token_expires |-> verification_token_expires,
     reset_token |-> NullText,
     reset_token_expires |-> NullText]

\* the request has no username, so the username check of lines 113-119 is skipped
register_user(email, password, verification_token) ==
    LET user_email == EmailStr(email)
        request == Response("register_user", {}, 0, "")
    IN  IF FindUserByEmail(user_email) # NoUser
        THEN [response |-> [request EXCEPT !.status_code = 400,
                                           !.detail = "Email already registered"],
              users |-> users]
        ELSE LET id == CHOOSE new \in NewUserIds : new \notin DOMAIN users
                 new_user == AccountRow(user_email, password, FALSE, verification_token,
                                [at |-> now + VERIFICATION_TOKEN_EXPIRE])
             IN  [response |-> [request EXCEPT !.status_code = 201,
                                               !.detail = "Registration successful",
                                               !.user = id],
                  users |-> [u \in DOMAIN users \cup {id} |->
                                IF u = id THEN new_user ELSE users[u]]]

\* the tokens stored in the users table; a new token is none of them
StoredEmailTokens ==
    {users[id].verification_token : id \in DOMAIN users}
        \cup {users[id].reset_token : id \in DOMAIN users}

\* the responses are kept with the request bodies
RegisterUser(email, password, verification_token) ==
    LET result == register_user(email, password, verification_token) IN
    /\ verification_token \notin StoredEmailTokens
    /\ NewUserIds \ DOMAIN users # {}
    /\ Deliver(result.response @@ [email |-> email, password |-> password])
    /\ users' = result.users
    /\ UNCHANGED <<roles, now, reqs, ticks>>

verify_email(token) ==
    LET id == FindUserByVerificationToken(token)
        request == Response("verify_email", {}, 0, "")
    IN  IF id = NoUser
        THEN [response |-> [request EXCEPT !.status_code = 400,
                                !.detail = "Invalid or expired verification token"],
              users |-> users]
        ELSE IF users[id].email_verified
        THEN [response |-> [request EXCEPT !.status_code = 200,
                                !.detail = "Email already verified", !.user = id],
              users |-> users]
        ELSE IF ~is_token_valid(users[id].verification_token_expires)
        THEN [response |-> [request EXCEPT !.status_code = 400,
                                !.detail = "Verification token has expired", !.user = id],
              users |-> users]
        ELSE [response |-> [request EXCEPT !.status_code = 200,
                                !.detail = "Email verified successfully", !.user = id],
              users |-> [users EXCEPT ![id].email_verified = TRUE,
                                      ![id].verification_token = NullText,
                                      ![id].verification_token_expires = NullText]]

VerifyEmail(token) ==
    LET result == verify_email(token) IN
    /\ Deliver(result.response @@ [email_token |-> token])
    /\ users' = result.users
    /\ UNCHANGED <<roles, now, reqs, ticks>>

resend_verification(email, verification_token) ==
    LET id == FindUserByEmail(EmailStr(email))
        request == Response("resend_verification", {}, 0, "")
    IN  IF id = NoUser
        THEN [response |-> [request EXCEPT !.status_code = 200,
                    !.detail = "If that email exists, a verification link has been sent"],
              users |-> users]
        ELSE IF users[id].email_verified
        THEN [response |-> [request EXCEPT !.status_code = 400,
                    !.detail = "Email already verified"],
              users |-> users]
        ELSE [response |-> [request EXCEPT !.status_code = 200,
                    !.detail = "If that email exists, a verification link has been sent"],
              users |-> [users EXCEPT
                            ![id].verification_token = verification_token,
                            ![id].verification_token_expires =
                                [at |-> now + VERIFICATION_TOKEN_EXPIRE]]]

ResendVerification(email, verification_token) ==
    LET result == resend_verification(email, verification_token) IN
    /\ verification_token \notin StoredEmailTokens
    /\ Deliver(result.response @@ [email |-> email])
    /\ users' = result.users
    /\ UNCHANGED <<roles, now, reqs, ticks>>

forgot_password(email, reset_token) ==
    LET id == FindUserByEmail(EmailStr(email))
        request == Response("forgot_password", {}, 0, "")
    IN  IF id = NoUser
        THEN [response |-> [request EXCEPT !.status_code = 200,
                    !.detail = "If that email exists, a reset link has been sent"],
              users |-> users]
        ELSE IF ~users[id].email_verified
        THEN [response |-> [request EXCEPT !.status_code = 400,
                    !.detail = "Please verify your email first"],
              users |-> users]
        ELSE [response |-> [request EXCEPT !.status_code = 200,
                    !.detail = "If that email exists, a reset link has been sent"],
              users |-> [users EXCEPT
                            ![id].reset_token = reset_token,
                            ![id].reset_token_expires = [at |-> now + RESET_TOKEN_EXPIRE]]]

ForgotPassword(email, reset_token) ==
    LET result == forgot_password(email, reset_token) IN
    /\ reset_token \notin StoredEmailTokens
    /\ Deliver(result.response @@ [email |-> email])
    /\ users' = result.users
    /\ UNCHANGED <<roles, now, reqs, ticks>>

\* reset_password that leaves the token in place after a successful reset
reset_password_keeps_token(token, new_password) ==
    LET id == FindUserByResetToken(token)
        request == Response("reset_password", {}, 0, "")
    IN  IF id = NoUser
        THEN [response |-> [request EXCEPT !.status_code = 400,
                                !.detail = "Invalid or expired reset token"],
              users |-> users]
        ELSE IF ~is_token_valid(users[id].reset_token_expires)
        THEN [response |-> [request EXCEPT !.status_code = 400,
                                !.detail = "Reset token has expired", !.user = id],
              users |-> [users EXCEPT ![id].reset_token = NullText,
                                      ![id].reset_token_expires = NullText]]
        ELSE [response |-> [request EXCEPT !.status_code = 200,
                                !.detail = "Password reset successful", !.user = id],
              users |-> [users EXCEPT ![id].hashed_password = hash_password(new_password)]]

reset_password(token, new_password) ==
    LET id == FindUserByResetToken(token)
        request == Response("reset_password", {}, 0, "")
    IN  IF id = NoUser
        THEN [response |-> [request EXCEPT !.status_code = 400,
                                !.detail = "Invalid or expired reset token"],
              users |-> users]
        ELSE IF ~is_token_valid(users[id].reset_token_expires)
        THEN [response |-> [request EXCEPT !.status_code = 400,
                                !.detail = "Reset token has expired", !.user = id],
              users |-> [users EXCEPT ![id].reset_token = NullText,
                                      ![id].reset_token_expires = NullText]]
        ELSE [response |-> [request EXCEPT !.status_code = 200,
                                !.detail = "Password reset successful", !.user = id],
              users |-> [users EXCEPT ![id].hashed_password = hash_password(new_password),
                                      ![id].reset_token = NullText,
                                      ![id].reset_token_expires = NullText]]

ResetPassword(token, new_password) ==
    LET result == reset_password(token, new_password) IN
    /\ Deliver(result.response @@ [email_token |-> token, password |-> new_password])
    /\ users' = result.users
    /\ UNCHANGED <<roles, now, reqs, ticks>>

----------------------------------------------------------------------------
(* The clock *)

Tick(d) ==
    /\ ticks < MaxTicks
    /\ now + d <= MaxTime
    /\ now' = now + d
    /\ ticks' = ticks + 1
    /\ UNCHANGED <<users, roles, tokens, resp, reqs>>

----------------------------------------------------------------------------
(* The database after bootstrap, some registrations and some MFA enrolments *)

UserRow(email, password, superuser, verified, role_id, secret, codes) ==
    [email |-> email,
     hashed_password |-> hash_password(password),
     is_active |-> TRUE,
     is_superuser |-> superuser,
     email_verified |-> verified,
     role_id |-> role_id,
     mfa_enabled |-> secret # NullText,
     mfa_secret |-> secret,
     mfa_backup_codes |-> codes]

\* enable_mfa stores json.dumps of the hashes of generate_backup_codes(), whose
\* codes are drawn independently of each other
StoredBackupCodes ==
    {JsonDumps([i \in 1..MaxBackupCodes |-> hash_backup_code(BackupCode(f[i]))]) :
        f \in [1..MaxBackupCodes -> BackupCodeTexts]}

\* alice: verified and enrolled in MFA
AliceRows ==
    {UserRow("alice@x.com", "Passw0rd1", FALSE, TRUE, 2, encrypt_secret("SECRETA"), c) :
        c \in StoredBackupCodes}

AdminRow == UserRow("admin@x.com", "Passw0rd1", TRUE, TRUE, 1, NullText, NullText)

NoResponse == Response("none", {}, 0, "")

\* nobody has logged in yet; the administrator has no MFA, alice has
Init ==
    /\ \E alice \in AliceRows :
        users = [id \in UserIds |-> IF id = "admin" THEN AdminRow ELSE alice]
    /\ roles = InitRoles
    /\ now = StartTime
    /\ ticks = 0
    /\ tokens = {}
    /\ resp = NoResponse
    /\ reqs = <<>>

\* the codes a client may submit: TOTP codes of alice's secret for steps around
\* the current one and well before it, the current code of any secret, and
\* backup code texts
Codes ==
    {TotpAt("SECRETA", now + k) : k \in CodeOffsets}
        \cup {TotpAt(s, now) : s \in Secrets}
        \cup {BackupCode(c) : c \in BackupCodeTexts}

\* the login, MFA verification and refresh flows
Next ==
    \/ \E email \in Emails, password \in Passwords : Login(email, password)
    \/ \E token \in Presentable : GetMe(token)
    \/ \E token \in Presentable : RefreshToken(token)
    \/ \E token \in Presentable, code \in Codes : VerifyMfa(token, code)
    \/ \E d \in TickSteps : Tick(d)

Spec == Init /\ [][Next]_vars

\* the MFA login alone: login, verify_mfa and the clock
NextBackup ==
    \/ \E email \in Emails, password \in Passwords : Login(email, password)
    \/ \E token \in Presentable, code \in Codes : VerifyMfa(token, code)
    \/ \E d \in TickSteps : Tick(d)

SpecBackup == Init /\ [][NextBackup]_vars

\* the session token of the administrator's login at StartTime
AdminSessionToken ==
    [claims |-> [exp |-> StartTime + ACCESS_TOKEN_EXPIRE_MINUTES,
                 iat |-> StartTime, sub |-> "admin@x.com",
                 user_id |-> "admin", role |-> "super_admin",
                 permissions |-> {"system.*"}],
     sig |-> "SECRET_KEY"]

\* the administrator has logged in, alice has registered
InitAdmin ==
    /\ \E v \in BOOLEAN, r \in {NoRoleId, 2} :
        users = [id \in UserIds |->
                    IF id = "admin"
                    THEN AdminRow
                    ELSE UserRow("alice@x.com", "Passw0rd1", FALSE, v, r, NullText, NullText)]
    /\ roles = InitRoles
    /\ now = StartTime
    /\ ticks = 0
    /\ tokens = {AdminSessionToken}
    /\ resp = NoResponse
    /\ reqs = <<>>

\* the flows without MFA, while the administrator changes users and roles
NextAdmin ==
    \/ \E email \in Emails \ {"admin@x.com"}, password \in Passwords : Login(email, password)
    \/ \E token \in Presentable : GetMe(token)
    \/ \E token \in Presentable : RefreshToken(token)
    \/ \E token \in Presentable, id \in UserIds, a \in BOOLEAN : ToggleUserStatus(token, id, a)
    \/ \E token \in Presentable, id \in UserIds : DeleteUser(token, id)
    \/ \E token \in Presentable, r \in RoleIds : AssignUserRole(token, "alice", r)
    \/ \E token \in Presentable, r \in RoleIds, ps \in PermissionSets : AssignPermissions(token, r, ps)

SpecAdmin == InitAdmin /\ [][NextAdmin]_vars

\* alice is enrolled in MFA and every backup code text is among her stored
\* codes; her verify_mfa requests are handled concurrently
InitRace ==
    /\ \E c \in {d \in StoredBackupCodes :
                    \A t \in BackupCodeTexts :
                        Occurrences(JsonLoads(d), hash_backup_code(BackupCode(t))) >= 1} :
        users = [id \in UserIds |->
                    IF id = "admin"
                    THEN AdminRow
                    ELSE UserRow("alice@x.com", "Passw0rd1", FALSE, TRUE, 2,
                                 encrypt_secret("SECRETA"), c)]
    /\ roles = InitRoles
    /\ now = StartTime
    /\ ticks = 0
    /\ tokens = {}
    /\ resp = NoResponse
    /\ reqs = <<>>

\* the codes the racing requests submit: the backup codes and the current TOTP code
RaceCodes == {BackupCode(c) : c \in BackupCodeTexts} \cup {TotpAt("SECRETA", now)}

NextRace ==
    \/ \E password \in Passwords : Login("alice@x.com", password)
    \/ \E r \in RequestIds, token \in tokens, code \in RaceCodes : VerifyMfaLoad(r, token, code)
    \/ \E r \in RequestIds : VerifyMfaCommit(r)

SpecRace == InitRace /\ [][NextRace]_vars

----------------------------------------------------------------------------
(* app/api/v1/mfa.py: a user manages MFA with the session token of a login, *)
(* and logs in again                                                        *)

\* the session token of alice's login at StartTime, before she enabled MFA
AliceSessionToken ==
    [claims |-> [exp |-> StartTime + ACCESS_TOKEN_EXPIRE_MINUTES,
                 iat |-> StartTime, sub |-> "alice@x.com",
                 user_id |-> "alice", role |-> "editor",
                 permissions |-> {"users.read"}],
     sig |-> "SECRET_KEY"]

\* the secret a client submits to enable_mfa: one setup_mfa proposed, or none
SubmittedSecrets == Secrets \cup {""}

\* the codes a client submits to enable_mfa with a secret: codes of that
\* secret for steps around the current one, and the current code of another
EnableCodes(secret) ==
    {TotpAt(secret, now + k) : k \in {-2, -1, 0, 1}} \cup {TotpAt("SECRETB", now)}

\* the codes a client submits to verify_mfa
MfaCodes ==
    {TotpAt(s, now) : s \in SubmittedSecrets}
        \cup {BackupCode(b[i]) : b \in Batches, i \in 1..2}

InitMfa ==
    /\ users = [id \in UserIds |->
                    IF id = "admin"
                    THEN AdminRow
                    ELSE UserRow("alice@x.com", "Passw0rd1", FALSE, TRUE, 2, NullText, NullText)]
    /\ roles = InitRoles
    /\ now = StartTime
    /\ ticks = 0
    /\ tokens = {AliceSessionToken}
    /\ resp = NoResponse
    /\ reqs = <<>>

NextMfa ==
    \/ \E token \in Presentable, secret \in Secrets, batch \in Batches :
            SetupMfa(token, secret, batch)
    \/ \E token \in Presentable, secret \in SubmittedSecrets, batch \in Batches :
            \E code \in EnableCodes(secret) : EnableMfa(token, secret, code, batch)
    \/ \E token \in Presentable, password \in Passwords : DisableMfa(token, password)
    \/ \E token \in Presentable, password \in Passwords, batch \in Batches :
            RegenerateBackupCodes(token, password, batch)
    \/ \E password \in Passwords : Login("alice@x.com", password)
    \/ \E token \in Presentable, code \in MfaCodes : VerifyMfa(token, code)

SpecMfa == InitMfa /\ [][NextMfa]_vars

----------------------------------------------------------------------------
(* app/api/v1/roles.py: the administrator manages the roles while alice has *)
(* the editor role                                                          *)

\* the ids of the request paths
RolePathIds == 1..MaxRoles

\* the names a RoleCreate body gives: one that exists at the start, one new
RoleNames == {"editor", "viewer"}

\* RoleUpdate bodies: both fields set, and one with fields the schema does
\* not have
RoleUpdateBodies ==
    {[display_name |-> "Senior Editor", description |-> "Publishes content"],
     [display_name |-> "Owner", name |-> "owner", is_system_role |-> TRUE]}

InitRoleAdmin ==
    /\ users = [id \in UserIds |->
                    IF id = "admin"
                    THEN AdminRow
                    ELSE UserRow("alice@x.com", "Passw0rd1", FALSE, TRUE, 2, NullText, NullText)]
    /\ roles = InitRoles
    /\ now = StartTime
    /\ ticks = 0
    /\ tokens = {AdminSessionToken}
    /\ resp = NoResponse
    /\ reqs = <<>>

NextRoleAdmin ==
    \/ \E token \in Presentable, name \in RoleNames :
            CreateRole(token, name, "Viewer", "Reads content")
    \/ \E token \in Presentable, r \in RolePathIds, role_update \in RoleUpdateBodies :
            UpdateRole(token, r, role_update)
    \/ \E token \in Presentable, r \in RolePathIds : DeleteRole(token, r)
    \/ \E token \in Presentable, r \in RolePathIds, ps \in PermissionSets :
            AssignPermissions(token, r, ps)
    \/ \E token \in Presentable, r \in RolePathIds : AssignUserRole(token, "alice", r)

SpecRoleAdmin == InitRoleAdmin /\ [][NextRoleAdmin]_vars

----------------------------------------------------------------------------
(* app/api/v1/auth.py: people register, verify their address, ask for a   *)
(* password reset and log in                                              *)

\* the addresses the requests carry: alice's as stored and in other letter
\* cases, bob's, and one nobody has, typed with its domain in capitals or not
AccountEmails ==
    {"alice@x.com", "Alice@x.com", "alice@X.COM", "bob@x.com", "nobody@x.com", "nobody@X.COM"}

\* the token of the verification mail bob got when he registered
BobVerificationToken == [urlsafe |-> "Z"]

\* alice has verified her address; bob registered and has not, and his token
\* has expired or not
InitAccounts ==
    /\ \E expires \in {StartTime, StartTime + VERIFICATION_TOKEN_EXPIRE} :
        users = [id \in {"alice", "bob"} |->
                    IF id = "alice"
                    THEN AccountRow("alice@x.com", "Passw0rd1", TRUE, NullText, NullText)
                    ELSE AccountRow("bob@x.com", "Passw0rd1", FALSE,
                                    BobVerificationToken, [at |-> expires])]
    /\ roles = InitRoles
    /\ now = StartTime
    /\ ticks = 0
    /\ tokens = {}
    /\ resp = NoResponse
    /\ reqs = <<>>

NextAccounts ==
    \/ \E email \in AccountEmails \ {"bob@x.com"}, token \in EmailTokens :
            RegisterUser(email, "Passw0rd1", token)
    \/ \E token \in EmailTokens \cup {BobVerificationToken} : VerifyEmail(token)
    \/ \E email \in AccountEmails, token \in EmailTokens : ResendVerification(email, token)
    \/ \E email \in AccountEmails, token \in EmailTokens : ForgotPassword(email, token)
    \/ \E token \in EmailTokens : ResetPassword(token, "Wrong0000")
    \/ \E email \in AccountEmails, password \in Passwords : Login(email, password)

SpecAccounts == InitAccounts /\ [][NextAccounts]_vars

----------------------------------------------------------------------------
(* app/core/security.py: verify_password on the digests a users row can    *)
(* hold, and login of a user with such a row                                *)

\* texts that are not bcrypt digests: a plain text, and an empty column
MalformedDigests == {[text |-> "not-a-bcrypt-digest"], [text |-> ""]}

Digests == {hash_password(password) : password \in Passwords} \cup MalformedDigests

VerifyPassword(plain_password, hashed_password) ==
    /\ resp' = [op |-> "verify_password", plain_password |-> plain_password,
                hashed_password |-> hashed_password,
                result |-> verify_password_call(plain_password, hashed_password)]
    /\ UNCHANGED <<users, roles, now, tokens, reqs, ticks>>

\* alice's hashed_password column holds any of the digests
InitPassword ==
    /\ \E digest \in Digests, verified \in BOOLEAN :
        users = [id \in UserIds |->
                    IF id = "admin"
                    THEN AdminRow
                    ELSE [UserRow("alice@x.com", "Passw0rd1", FALSE, verified, 2,
                                  NullText, NullText)
                            EXCEPT !.hashed_password = digest]]
    /\ roles = InitRoles
    /\ now = StartTime
    /\ ticks = 0
    /\ tokens = {}
    /\ resp = NoResponse
    /\ reqs = <<>>

NextPassword ==
    \/ \E plain_password \in Passwords, hashed_password \in Digests :
            VerifyPassword(plain_password, hashed_password)
    \/ \E email \in Emails, password \in Passwords : Login(email, password)
    \/ \E d \in TickSteps : Tick(d)

SpecPassword == InitPassword /\ [][NextPassword]_vars

----------------------------------------------------------------------------
(* app/services/permission_service.py while the administrator changes the *)
(* permissions of the roles and the role of alice                          *)

\* a caller loads the user in a session of its own and asks for one permission
CheckPermission(id, requested) ==
    /\ id \in DOMAIN users
    /\ Deliver([Response("user_has_permission", {}, 200, "") EXCEPT !.user = id]
                @@ [permission |-> requested,
                    allowed |-> user_has_permission(users[id], requested)])
    /\ UNCHANGED <<users, roles, now, reqs, ticks>>

\* the permission lists an administrator assigns
GrantedSets ==
    {{}, {"users.*"}, {"system.*"}, {"users.read"}, {"users.*", "products.read"}}

InitPerm ==
    /\ \E r \in {NoRoleId, 2} :
        users = [id \in UserIds |->
                    IF id = "admin"
                    THEN AdminRow
                    ELSE UserRow("alice@x.com", "Passw0rd1", FALSE, TRUE, r, NullText, NullText)]
    /\ roles = InitRoles
    /\ now = StartTime
    /\ ticks = 0
    /\ tokens = {AdminSessionToken}
    /\ resp = NoResponse
    /\ reqs = <<>>

NextPerm ==
    \/ \E token \in Presentable, r \in RoleIds, ps \in GrantedSets :
            AssignPermissions(token, r, ps)
    \/ \E token \in Presentable, r \in RoleIds : AssignUserRole(token, "alice", r)
    \/ \E id \in UserIds, requested \in PermissionNames : CheckPermission(id, requested)

SpecPerm == InitPerm /\ [][NextPerm]_vars

----------------------------------------------------------------------------
(* app/core/security.py on its own: a caller issues a token, time passes, *)
(* and a token is validated                                               *)

\* the claim sets the handlers encode (auth.py 255-259 and 286-291 and 386-389,
\* mfa.py 247-251), and two that name a claim create_access_token sets itself
ClaimSets ==
    {[sub |-> "alice@x.com", user_id |-> "alice"],
     [sub |-> "alice@x.com", user_id |-> "alice", mfa_pending |-> TRUE],
     [sub |-> "alice@x.com", user_id |-> "alice",
      role |-> "editor", permissions |-> {"users.read"}],
     [sub |-> "alice@x.com", iat |-> 0],
     [sub |-> "alice@x.com", exp |-> MaxTime + 1]}

\* expires_delta: negative, zero, one step, the lifetime of the MFA temp token
Lifetimes == {-1, 0, 1, MFA_TEMP_TOKEN_EXPIRE}

\* a string that is not header.claims.signature
MalformedToken == [segments |-> 1]

NotDecoded == [pending |-> TRUE]

CreateAccessToken(data, expires_delta) ==
    /\ tokens' = {create_access_token(data, expires_delta)}
    /\ resp' = [op |-> "create_access_token", data |-> data,
                expires_delta |-> expires_delta, at |-> now,
                presented |-> {}, payload |-> NotDecoded]
    /\ UNCHANGED <<users, roles, now, reqs, ticks>>

\* the caller presents the token it was issued, a forged one or a malformed one
DecodeToken(token) ==
    /\ tokens # {}
    /\ resp' = [resp EXCEPT !.op = "decode_token",
                            !.presented = {token},
                            !.payload = decode_token(token)]
    /\ UNCHANGED <<users, roles, now, tokens, reqs, ticks>>

InitToken ==
    /\ users = [id \in UserIds |->
                    IF id = "admin"
                    THEN AdminRow
                    ELSE UserRow("alice@x.com", "Passw0rd1", FALSE, TRUE, 2, NullText, NullText)]
    /\ roles = InitRoles
    /\ now = StartTime
    /\ ticks = 0
    /\ tokens = {}
    /\ resp = NoResponse
    /\ reqs = <<>>

NextToken ==
    \/ \E data \in ClaimSets, expires_delta \in Lifetimes : CreateAccessToken(data, expires_delta)
    \/ \E token \in tokens \cup {ForgedToken, MalformedToken} : DecodeToken(token)
    \/ \E d \in TickSteps : Tick(d)

SpecToken == InitToken /\ [][NextToken]_vars

----------------------------------------------------------------------------
(* app/services/mfa_service.py: verify_totp on the secrets and codes a     *)
(* caller can pass, while the clock advances                                *)

\* the secrets passed: generated ones, the empty text and a malformed one
TotpSecrets == Secrets \cup {""} \cup MalformedSecrets

\* the codes passed: those of the steps around the current one, for a well
\* formed secret, and a text that is no code
TotpCodes ==
    {TotpAt(secret, now + k) : secret \in Secrets \cup {""}, k \in (0 - 3)..3}
        \cup {[text |-> "12345"]}

VerifyTotp(secret, code) ==
    /\ resp' = [op |-> "verify_totp", secret |-> secret, code |-> code, at |-> now,
                result |-> verify_totp(secret, code)]
    /\ UNCHANGED <<users, roles, now, tokens, reqs, ticks>>

NextTotp ==
    \/ \E secret \in TotpSecrets, code \in TotpCodes : VerifyTotp(secret, code)
    \/ \E d \in TickSteps : Tick(d)

SpecTotp == InitToken /\ [][NextTotp]_vars

----------------------------------------------------------------------------
(* app/api/v1/auth.py: password reset while the clock advances.  alice     *)
(* asked for a reset link before the first state; bob asks for one later   *)

AliceResetToken == [urlsafe |-> "R"]

InitReset ==
    /\ \E expires \in {StartTime + 1, StartTime + RESET_TOKEN_EXPIRE} :
        users = [id \in {"alice", "bob"} |->
                    IF id = "alice"
                    THEN [AccountRow("alice@x.com", "Passw0rd1", TRUE, NullText, NullText)
                            EXCEPT !.reset_token = AliceResetToken,
                                   !.reset_token_expires = [at |-> expires]]
                    ELSE AccountRow("bob@x.com", "Passw0rd1", TRUE, NullText, NullText)]
    /\ roles = InitRoles
    /\ now = StartTime
    /\ ticks = 0
    /\ tokens = {}
    /\ resp = NoResponse
    /\ reqs = <<>>

NextReset ==
    \/ \E email \in {"bob@x.com", "nobody@x.com"}, token \in EmailTokens :
            ForgotPassword(email, token)
    \/ \E token \in EmailTokens \cup {AliceResetToken}, password \in Passwords :
            ResetPassword(token, password)
    \/ \E password \in Passwords : Login("alice@x.com", password)
    \/ \E d \in TickSteps : Tick(d)

SpecReset == InitReset /\ [][NextReset]_vars

----------------------------------------------------------------------------
(* app/api/v1/mfa.py: verify_mfa requests of alice in flight while she     *)
(* regenerates her backup codes or disables MFA in another request         *)

InitRaceManage ==
    /\ users = [id \in UserIds |->
                    IF id = "admin"
                    THEN AdminRow
                    ELSE UserRow("alice@x.com", "Passw0rd1", FALSE, TRUE, 2,
                                 encrypt_secret("SECRETA"),
                                 HashedCodes(<<BackupCode("BKUPCODE"), BackupCode("RECOVERY")>>))]
    /\ roles = InitRoles
    /\ now = StartTime
    /\ ticks = 0
    /\ tokens = {AliceSessionToken}
    /\ resp = NoResponse
    /\ reqs = <<>>

NextRaceManage ==
    \/ Login("alice@x.com", "Passw0rd1")
    \/ \E r \in RequestIds, token \in {t \in tokens : "mfa_pending" \in DOMAIN t.claims} :
            \E text \in BackupCodeTexts : VerifyMfaLoad(r, token, BackupCode(text))
    \/ \E r \in RequestIds : VerifyMfaCommit(r)
    \/ \E batch \in Batches : RegenerateBackupCodes(AliceSessionToken, "Passw0rd1", batch)
    \/ \E password \in Passwords : DisableMfa(AliceSessionToken, password)

SpecRaceManage == InitRaceManage /\ [][NextRaceManage]_vars

----------------------------------------------------------------------------
(* app/api/v1/users.py: update_user, and app/api/deps.py:                   *)
(* get_current_user_optional                                                *)

\* user_update is user_update.dict(exclude_unset=True): the fields the body sets
update_user(token, user_id, user_update) ==
    LET current_user == get_current_superuser(token)
        request == Response("update_user", {}, 0, "")
    IN  IF current_user.status_code # 200
        THEN [response |-> [request EXCEPT !.status_code = current_user.status_code,
                                           !.detail = current_user.detail],
              users |-> users]
        ELSE IF FindUserById(user_id) = NoUser
        THEN [response |-> [request EXCEPT !.status_code = 404, !.detail = "User not found"],
              users |-> users]
        ELSE IF /\ "email" \in DOMAIN user_update
                /\ user_update.email # users[user_id].email
                /\ FindUserByEmail(user_update.email) # NoUser
        THEN [response |-> [request EXCEPT !.status_code = 400,
                                !.detail = "Email already registered"],
              users |-> users]
        ELSE [response |-> [request EXCEPT !.status_code = 200, !.user = user_id],
              users |-> [users EXCEPT ![user_id] =
                            [field \in DOMAIN @ |->
                                IF field \in DOMAIN user_update
                                THEN user_update[field]
                                ELSE @[field]]]]

\* the response is kept with the caller's token, the path id and the body
UpdateUser(token, user_id, user_update) ==
    LET result == update_user(token, user_id, user_update) IN
    /\ Deliver(result.response
                @@ [token |-> token, user_id |-> user_id, user_update |-> user_update])
    /\ users' = result.users
    /\ UNCHANGED <<roles, now, reqs, ticks>>

\* the user get_current_user_optional returns, NoUser for None
get_current_user_optional(token) ==
    LET payload == decode_token(token) IN
    IF payload = NoPayload
    THEN NoUser
    ELSE LET user_email == Get(payload, "sub", NoUser) IN
         IF user_email = NoUser THEN NoUser ELSE FindUserByEmail(user_email)

GetCurrentUserOptional(token) ==
    /\ Deliver([Response("get_current_user_optional", {token}, 0, "")
                    EXCEPT !.user = get_current_user_optional(token)])
    /\ UNCHANGED <<users, roles, now, reqs, ticks>>

\* the bodies sent to update_user; pydantic has normalised the address
UserUpdateBodies ==
    {[email |-> EmailStr(email)] : email \in {"alice@x.com", "nobody@x.com"}}
        \cup {[is_active |-> active] : active \in BOOLEAN}

\* the administrator and alice have logged in
InitUserAdmin ==
    /\ users = [id \in UserIds |->
                    IF id = "admin"
                    THEN [AccountRow("admin@x.com", "Passw0rd1", TRUE, NullText, NullText)
                            EXCEPT !.is_superuser = TRUE, !.role_id = 1]
                    ELSE [AccountRow("alice@x.com", "Passw0rd1", TRUE, NullText, NullText)
                            EXCEPT !.role_id = 2]]
    /\ roles = InitRoles
    /\ now = StartTime
    /\ ticks = 0
    /\ tokens = {AdminSessionToken, AliceSessionToken}
    /\ resp = NoResponse
    /\ reqs = <<>>

NextUserAdmin ==
    \/ \E token \in tokens, id \in UserIds, body \in UserUpdateBodies :
            UpdateUser(token, id, body)
    \/ \E token \in tokens, id \in UserIds, a \in BOOLEAN : ToggleUserStatus(token, id, a)
    \/ \E token \in tokens, id \in UserIds : DeleteUser(token, id)
    \/ \E token \in EmailTokens : RegisterUser("alice@x.com", "Passw0rd1", token)
    \/ \E token \in tokens : GetMe(token)
    \/ \E token \in tokens : GetCurrentUserOptional(token)
    \/ \E token \in tokens : RefreshToken(token)

SpecUserAdmin == InitUserAdmin /\ [][NextUserAdmin]_vars

----------------------------------------------------------------------------
(* app/api/v1/mfa.py: verify_mfa while the administrator deactivates and   *)
(* reactivates alice, who has MFA enabled                                  *)

InitMfaAdmin ==
    /\ users = [id \in UserIds |->
                    IF id = "admin"
                    THEN AdminRow
                    ELSE UserRow("alice@x.com", "Passw0rd1", FALSE, TRUE, 2,
                                 encrypt_secret("SECRETA"),
                                 HashedCodes(<<BackupCode("BKUPCODE"), BackupCode("RECOVERY")>>))]
    /\ roles = InitRoles
    /\ now = StartTime
    /\ ticks = 0
    /\ tokens = {AdminSessionToken}
    /\ resp = NoResponse
    /\ reqs = <<>>

NextMfaAdmin ==
    \/ \E password \in Passwords : Login("alice@x.com", password)
    \/ \E token \in Presentable, code \in RaceCodes : VerifyMfa(token, code)
    \/ \E token \in Presentable : RefreshToken(token)
    \/ \E a \in BOOLEAN : ToggleUserStatus(AdminSessionToken, "alice", a)
    \/ \E d \in TickSteps : Tick(d)

SpecMfaAdmin == InitMfaAdmin /\ [][NextMfaAdmin]_vars

----------------------------------------------------------------------------
(* Properties *)

IsChallengeToken(t) ==
    "mfa_pending" \in DOMAIN t.claims /\ t.claims.mfa_pending = TRUE

StoredCodes(row) ==
    IF row.mfa_backup_codes = NullText THEN <<>> ELSE JsonLoads(row.mfa_backup_codes)

\* C1: a token carrying mfa_pending, which login mints for a user with MFA
\* enabled, is never accepted by get_current_user.
C1_ChallengeTokenNeverAuthenticates ==
    \A t \in tokens : IsChallengeToken(t) => get_current_user(t).status_code # 200

\* C2: verify_mfa accepts only a temp_token carrying mfa_pending = true; given
\* any other token it rejects the request and mints nothing.
C2_VerifyMfaNeedsMfaPending ==
    \A t \in Presentable, code \in Codes :
        ~IsChallengeToken(t) =>
            /\ verify_mfa(t, code).response.status_code # 200
            /\ Minted(verify_mfa(t, code).response) = {}

\* the user exists, the password verifies, the user is active and verified
LoginAllowed(email, password) ==
    \E id \in DOMAIN users :
        /\ users[id].email = email
        /\ verify_password(password, users[id].hashed_password)
        /\ users[id].is_active
        /\ users[id].email_verified

C4_MfaLoginScenario ==
    \A id \in DOMAIN users, password \in Passwords :
        (/\ users[id].mfa_enabled
         /\ users[id].is_active
         /\ users[id].email_verified
         /\ verify_password(password, users[id].hashed_password)) =>
            LET r == login(users[id].email, password)
                secret == decrypt_secret(users[id].mfa_secret)
                held == {t \in tokens : /\ IsChallengeToken(t)
                                        /\ t.claims.user_id = id
                                        /\ decode_token(t) # NoPayload}
            IN  /\ r.status_code = 200
                /\ r.access_token = {}
                /\ r.refresh_token = {}
                /\ r.temp_token # {}
                /\ \A t \in r.temp_token \cup held :
                    LET good == verify_mfa(t, TotpAt(secret, now)).response
                        stale == verify_mfa(t, TotpAt(secret, now - 10)).response
                    IN  /\ good.status_code = 200
                        /\ good.access_token # {}
                        /\ good.refresh_token # {}
                        /\ stale.status_code = 401
                        /\ Minted(stale) = {}

\* verify_mfa has just exchanged a challenge token for a session and a refresh token
C4_Witness ==
    /\ resp.op = "verify_mfa"
    /\ resp.status_code = 200
    /\ \E t \in resp.presented : IsChallengeToken(t)
    /\ resp.access_token # {}
    /\ resp.refresh_token # {}

C6_AtMostOnceUnderRace ==
    [][\A r \in DOMAIN reqs :
        VerifyMfaCommit(r) =>
            \A c \in BackupCodeTexts :
                LET h == hash_backup_code(BackupCode(c))
                    n == Occurrences(StoredCodes(users[reqs[r].user]), h)
                    m == Occurrences(StoredCodes(users'[reqs[r].user]), h)
                IN  /\ m <= n
                    /\ (reqs[r].code = BackupCode(c) /\ resp'.status_code = 200) =>
                            (n >= 1 /\ m = n - 1)]_vars

\* C7: once verify_mfa has succeeded with a challenge token, every further
\* verify_mfa with that token fails, whatever the code.
C7_ChallengeTokenRedeemedOnce ==
    (resp.op = "verify_mfa" /\ resp.status_code = 200) =>
        \A t \in resp.presented, code \in Codes :
            IsChallengeToken(t) => verify_mfa(t, code).response.status_code # 200

\* C8: a refresh token returned by login or verify_mfa carries no claims
\* besides sub, user_id, iat and exp; in particular no permissions.
C8_RefreshTokenCarriesNoPermissions ==
    \A t \in resp.refresh_token :
        /\ "permissions" \notin DOMAIN t.claims
        /\ DOMAIN t.claims = {"sub", "user_id", "iat", "exp"}

\* C9: the session token a successful refresh returns carries the role and
\* the permissions of the user as the store has them at that moment.
C9_RefreshResolvesPermissions ==
    (resp.op = "refresh" /\ resp.status_code = 200) =>
        \A t \in resp.access_token :
            /\ "permissions" \in DOMAIN t.claims
            /\ "role" \in DOMAIN t.claims
            /\ t.claims.permissions = get_user_permissions(users[resp.user])

\* C10: refresh fails with 401 and mints nothing when the token does not
\* decode, when no user has the email it names, or when that user is inactive,
\* however valid the token is.
C10_RefreshRejects ==
    \A t \in Presentable :
        LET payload == decode_token(t)
            id == IF payload = NoPayload THEN NoUser ELSE FindUserByEmail(payload.sub)
        IN  (payload = NoPayload \/ id = NoUser \/ ~users[id].is_active) =>
                /\ refresh_token(t).status_code = 401
                /\ Minted(refresh_token(t)) = {}

\* refresh has just refused a valid token whose user was deleted or deactivated
C10_Witness ==
    /\ resp.op = "refresh"
    /\ resp.status_code = 401
    /\ resp.detail = "User not found or inactive"
    /\ \E t \in tokens : /\ decode_token(t) # NoPayload
                         /\ t.claims.sub = "alice@x.com"
                         /\ \/ "alice" \notin DOMAIN users
                            \/ ~users["alice"].is_active

----------------------------------------------------------------------------
(* Tokens: round trip, expiry, errors *)

C12_ExpiredAtExpiry ==
    \A t \in tokens : now >= t.claims.exp => decode_token(t) = NoPayload

\* C13: decode_token never raises: for a token with a signature mismatch, a
\* malformed structure or a passed expiry it returns the same invalid value.
C13_DecodeTokenNeverRaises ==
    /\ \A t \in tokens \cup {ForgedToken, MalformedToken} :
            ("sig" \notin DOMAIN t \/ t.sig # "SECRET_KEY" \/ t.claims.exp < now) =>
                decode_token(t) = NoPayload
    /\ resp.op = "decode_token" => "raised" \notin DOMAIN resp.payload

\* a correctly signed token was presented after its expiry and found invalid
C13_Witness ==
    /\ resp.op = "decode_token"
    /\ resp.presented = tokens
    /\ \E t \in tokens : t.claims.exp < now
    /\ resp.payload = NoPayload

----------------------------------------------------------------------------
(* Permissions *)

\* what the store holds for a user: the permission names of the role the row
\* names, none without a role
StoredPermissions(id) ==
    IF users[id].role_id = NoRoleId \/ users[id].role_id \notin DOMAIN roles
    THEN {}
    ELSE roles[users[id].role_id].permissions

\* system.* is present, or requested is, or requested has a '.' and the
\* wildcard of the part before its first '.' is present
Grants(permissions, requested) ==
    \/ "system.*" \in permissions
    \/ requested \in permissions
    \/ /\ Len(Split(requested)) > 1
       /\ \E p \in permissions : Split(p) = <<Head(Split(requested)), "*">>

\* C14: user_has_permission(user, requested) is true exactly when the user's
\* permission set contains system.*, or requested verbatim, or the wildcard of
\* the part of requested before its first '.'; a role granted only users.*
\* passes users.read and users.delete and fails products.read, and a role
\* granted system.* passes every check.
C14_WildcardSemantics ==
    \A id \in DOMAIN users, requested \in PermissionNames :
        LET granted == user_has_permission(users[id], requested)
            permissions == StoredPermissions(id)
        IN  /\ granted <=> Grants(permissions, requested)
            /\ permissions = {"users.*"} =>
                    /\ requested \in {"users.read", "users.delete", "users.read.all"} => granted
                    /\ requested \in {"products.read", "users", "dashboard"} => ~granted
            /\ "system.*" \in permissions => granted

\* a user whose role is granted only users.* was just allowed users.delete
C14_Witness ==
    /\ resp.op = "user_has_permission"
    /\ resp.permission = "users.delete"
    /\ resp.allowed
    /\ StoredPermissions(resp.user) = {"users.*"}

\* C16: after any committed assign_permissions or assign_user_role, the next
\* user_has_permission call for the user answers from the store as it is
\* then: the answer of every call is the one the current rows give.
C16_NoPermissionCache ==
    resp.op = "user_has_permission" =>
        resp.allowed = Grants(StoredPermissions(resp.user), resp.permission)

\* alice, whom the seeded roles do not give products.read, was just allowed it
C16_Witness ==
    /\ resp.op = "user_has_permission"
    /\ resp.user = "alice"
    /\ resp.permission = "products.read"
    /\ resp.allowed
    /\ roles # InitRoles

\* C15: the permissions claim of the session token of a login without MFA is
\* the set the store resolves for the user at that time: empty without a
\* role, otherwise the names granted to the role, verbatim; a permission
\* decision taken from the claim is the decision taken from the store.
C15_LoginPermissionsFromStore ==
    (resp.op = "login" /\ resp.status_code = 200) =>
        \A t \in resp.access_token :
            LET id == t.claims.user_id IN
            /\ id \in DOMAIN users
            /\ t.claims.permissions = StoredPermissions(id)
            /\ \A requested \in PermissionNames :
                    Grants(t.claims.permissions, requested)
                        = user_has_permission(users[id], requested)

\* a login after the administrator replaced the permissions of the user's role
C15_Witness ==
    /\ resp.op = "login"
    /\ resp.status_code = 200
    /\ \E t \in resp.access_token :
            /\ t.claims.permissions = {"users.*", "products.read"}
            /\ t.claims.role = "editor"

\* C17: every session token minted by a flow that signs a user in, login or
\* verify_mfa, carries subject, user id, role name and permission list; the
\* one minted by a successful verify_mfa carries them in addition to
\* mfa_verified = true.  (The token refresh mints is the subject of C9.)
C17_SessionTokenCarriesRole ==
    resp.op \in {"login", "verify_mfa"} =>
        \A t \in resp.access_token :
            /\ {"sub", "user_id", "role", "permissions"} \subseteq DOMAIN t.claims
            /\ resp.op = "verify_mfa" =>
                    ("mfa_verified" \in DOMAIN t.claims /\ t.claims.mfa_verified = TRUE)

----------------------------------------------------------------------------
(* MFA management *)

\* the stored MFA state of a row
MfaState(row) == <<row.mfa_enabled, row.mfa_secret, row.mfa_backup_codes>>

\* C18: in every reachable state, after any sequence of setup_mfa, enable_mfa,
\* disable_mfa, verify_mfa and regenerate_backup_codes calls, a user with
\* mfa_enabled = true has a non-null stored secret.
C18_MfaEnabledHasSecret ==
    \A id \in DOMAIN users :
        users[id].mfa_enabled => users[id].mfa_secret # NullText

\* a user who enabled MFA has just replaced the backup codes
C18_Witness ==
    /\ resp.op = "regenerate_backup_codes"
    /\ resp.status_code = 200
    /\ users[resp.user].mfa_enabled

\* C19: setup_mfa proposes: for an authenticated user without MFA it returns
\* a secret and 10 backup codes, and no call of it changes mfa_enabled,
\* mfa_secret or mfa_backup_codes of any user.
C19_SetupMfaChangesNothing ==
    [][resp'.op = "setup_mfa" =>
        /\ DOMAIN users' = DOMAIN users
        /\ \A id \in DOMAIN users : MfaState(users'[id]) = MfaState(users[id])
        /\ (resp'.user # NoUser /\ ~users[resp'.user].mfa_enabled) =>
                resp'.status_code = 200
        /\ resp'.status_code = 200 =>
                /\ resp'.secret \in Secrets
                /\ Len(resp'.backup_codes) = BACKUP_CODE_COUNT]_vars

\* setup_mfa has just answered a user who has no MFA state stored
C19_Witness ==
    /\ resp.op = "setup_mfa"
    /\ resp.status_code = 200
    /\ MfaState(users[resp.user]) = <<FALSE, NullText, NullText>>

\* C20: enable_mfa changes the stored MFA state only when the user has MFA
\* disabled and the code verifies against the submitted secret: then MFA is
\* enabled with that secret stored; otherwise the call reports an error and
\* mfa_enabled, mfa_secret and mfa_backup_codes are unchanged.
C20_EnableMfaOnlyOnValidCode ==
    [][resp'.op = "enable_mfa" =>
        LET id == resp'.user
            valid == \E i \in (0 - TOTP_VALID_WINDOW)..TOTP_VALID_WINDOW :
                        resp'.code = TotpAt(resp'.secret, now + i)
        IN  IF id # NoUser /\ ~users[id].mfa_enabled /\ valid
            THEN /\ resp'.status_code = 200
                 /\ users'[id].mfa_enabled
                 /\ users'[id].mfa_secret # NullText
                 /\ decrypt_secret(users'[id].mfa_secret) = resp'.secret
                 /\ \A other \in DOMAIN users \ {id} : users'[other] = users[other]
            ELSE /\ resp'.status_code # 200
                 /\ users' = users]_vars

\* enable_mfa has just refused a user who has MFA enabled
C20_Witness ==
    /\ resp.op = "enable_mfa"
    /\ resp.status_code = 400
    /\ users[resp.user].mfa_enabled
    /\ \E i \in (0 - TOTP_VALID_WINDOW)..TOTP_VALID_WINDOW :
            resp.code = TotpAt(resp.secret, now + i)

\* C21: disable_mfa moves the user to MFA_DISABLED and clears the secret and
\* the backup codes only when the submitted password verifies against the
\* user's current password hash; with a wrong password (and in every other
\* failing case) the stored MFA state is unchanged.
C21_DisableMfaNeedsPassword ==
    [][resp'.op = "disable_mfa" =>
        LET id == resp'.user IN
        IF /\ id # NoUser
           /\ users[id].mfa_enabled
           /\ verify_password(resp'.password, users[id].hashed_password)
        THEN /\ resp'.status_code = 200
             /\ MfaState(users'[id]) = <<FALSE, NullText, NullText>>
             /\ \A other \in DOMAIN users \ {id} : users'[other] = users[other]
        ELSE /\ resp'.status_code # 200
             /\ users' = users]_vars

\* disable_mfa has just refused a wrong password of a user who has MFA enabled
C21_Witness ==
    /\ resp.op = "disable_mfa"
    /\ resp.status_code = 401
    /\ resp.user # NoUser
    /\ users[resp.user].mfa_enabled
    /\ ~verify_password(resp.password, users[resp.user].hashed_password)

\* C22: disable_mfa called twice in a row with the correct password: the first
\* call disables MFA, the second reports "MFA is not enabled" (400) and leaves
\* the users table exactly as the first call left it.
C22_DisableMfaTwice ==
    [][(resp.op = "disable_mfa" /\ resp.status_code = 200) =>
        /\ MfaState(users[resp.user]) = <<FALSE, NullText, NullText>>
        /\ (/\ resp'.op = "disable_mfa"
            /\ resp'.user = resp.user
            /\ verify_password(resp'.password, users[resp.user].hashed_password))
                => /\ resp'.status_code = 400
                   /\ resp'.detail = "MFA is not enabled"
                   /\ users' = users]_vars

\* a disable_mfa call with the correct password has just been refused for a
\* user whose MFA was enabled once (a login of theirs was challenged) and has
\* been disabled by an earlier disable_mfa call
C22_Witness ==
    /\ resp.op = "disable_mfa"
    /\ resp.status_code = 400
    /\ resp.detail = "MFA is not enabled"
    /\ resp.user # NoUser
    /\ verify_password(resp.password, users[resp.user].hashed_password)
    /\ MfaState(users[resp.user]) = <<FALSE, NullText, NullText>>
    /\ \E t \in tokens : IsChallengeToken(t) /\ t.claims.sub = users[resp.user].email

\* every backup code generate_backup_codes can draw
DrawnCodes == {BackupCode(batch[i]) : batch \in Batches, i \in 1..BACKUP_CODE_COUNT}

\* C23: regenerate_backup_codes succeeds exactly for an authenticated user
\* with MFA enabled and the correct password; then the whole stored set is
\* replaced: no previously stored code (other than one drawn again) verifies
\* any more and each returned code verifies once; in every other case, a
\* wrong password among them, the stored set is unchanged.
C23_RegenerateReplacesAll ==
    [][resp'.op = "regenerate_backup_codes" =>
        LET id == resp'.user IN
        IF /\ id # NoUser
           /\ users[id].mfa_enabled
           /\ verify_password(resp'.password, users[id].hashed_password)
        THEN LET returned == resp'.backup_codes IN
             /\ resp'.status_code = 200
             /\ Len(returned) = BACKUP_CODE_COUNT
             /\ \A i \in 1..Len(returned) :
                    LET first == verify_user_backup_code(users'[id], returned[i])
                        after == [users'[id] EXCEPT !.mfa_backup_codes = first.stored]
                    IN  first.ok /\ ~verify_user_backup_code(after, returned[i]).ok
             /\ \A code \in DrawnCodes :
                    (/\ verify_user_backup_code(users[id], code).ok
                     /\ ~SeqContains(returned, code))
                        => ~verify_user_backup_code(users'[id], code).ok
             /\ users' = [users EXCEPT ![id].mfa_backup_codes = users'[id].mfa_backup_codes]
        ELSE /\ resp'.status_code # 200
             /\ users' = users]_vars

\* regenerate_backup_codes has just replaced the codes of a user who had
\* logged in with MFA: the stored list is the hashes of the returned codes
C23_Witness ==
    /\ resp.op = "regenerate_backup_codes"
    /\ resp.status_code = 200
    /\ StoredCodes(users[resp.user]) = JsonLoads(HashedCodes(resp.backup_codes))
    /\ \E t \in tokens : "mfa_verified" \in DOMAIN t.claims
    /\ \E code \in DrawnCodes : ~verify_user_backup_code(users[resp.user], code).ok

----------------------------------------------------------------------------
(* Roles *)

C25_DeleteRoleNeedsNoUsers ==
    [][(/\ resp'.op = "delete_role"
        /\ resp'.status_code \notin {401, 403}
        /\ resp'.role_id \in DOMAIN roles
        /\ ~roles[resp'.role_id].is_system_role)
            => IF RoleUsers(resp'.role_id) # {}
               THEN /\ resp'.status_code = 400
                    /\ roles' = roles
                    /\ users' = users
               ELSE /\ resp'.status_code = 200
                    /\ roles' = [r \in DOMAIN roles \ {resp'.role_id} |-> roles[r]]
                    /\ users' = users]_vars

\* the editor role has just been deleted after alice, who had it, was given
\* another role
C25_Witness ==
    /\ resp.op = "delete_role"
    /\ resp.status_code = 200
    /\ resp.role_id = 2
    /\ 2 \notin DOMAIN roles
    /\ users["alice"].role_id \in DOMAIN roles

----------------------------------------------------------------------------
(* Registration, email verification and password reset *)

\* C26: forgot_password and resend_verification answer every submitted email
\* with the same generic success response, whether no user has the email or
\* a user has it, verified or not.
C26_EnumerationResistance ==
    /\ resp.op = "forgot_password" =>
            /\ resp.status_code = 200
            /\ resp.detail = "If that email exists, a reset link has been sent"
    /\ resp.op = "resend_verification" =>
            /\ resp.status_code = 200
            /\ resp.detail = "If that email exists, a verification link has been sent"

\* C27: login answers with the same status and the same message when the
\* email matches no user and when the user exists and the password is wrong.
C27_LoginHidesWhichFieldFailed ==
    [][\A email \in AccountEmails, password \in Passwords :
        (resp'.op = "login" /\ Login(email, password)) =>
            LET id == FindUserByEmail(email) IN
            (id = NoUser \/ ~verify_password(password, users[id].hashed_password))
                => /\ resp' = Response("login", {}, 401, "Incorrect email or password")
                   /\ tokens' = tokens]_vars

\* a login has just been refused while one address of the requests has no
\* user and an existing user, who has not verified their address, could have
\* typed a wrong password
C27_Witness ==
    /\ resp.op = "login"
    /\ resp.status_code = 401
    /\ \E email \in AccountEmails : FindUserByEmail(email) = NoUser
    /\ \E id \in DOMAIN users : ~users[id].email_verified
    /\ "user3" \in DOMAIN users

\* C28: after register, login with the credentials of the registration fails
\* with EmailUnverified (403); after verify_email with the issued token,
\* login with the same credentials succeeds with a session and a refresh
\* token and no challenge token.
C28_RegisterVerifyLogin ==
    /\ (resp.op = "register_user" /\ resp.status_code = 201) =>
            LET r == login(resp.email, resp.password) IN
            /\ r.status_code = 403
            /\ r.detail = "Please verify your email before logging in"
            /\ Minted(r) = {}
    /\ (resp.op = "verify_email" /\ resp.detail = "Email verified successfully") =>
            \A email \in AccountEmails, password \in Passwords :
                (/\ EmailStr(email) = users[resp.user].email
                 /\ verify_password(password, users[resp.user].hashed_password))
                    => LET r == login(email, password) IN
                       /\ r.status_code = 200
                       /\ r.access_token # {}
                       /\ r.refresh_token # {}
                       /\ r.temp_token = {}

\* C29: email is a unique, case-insensitive key: no two stored users have
\* emails equal up to letter case, and login finds a user by an email that
\* differs from the stored one only in letter case.
C29_EmailCaseInsensitiveKey ==
    /\ \A a \in DOMAIN users : \A b \in DOMAIN users \ {a} :
            Lower(users[a].email) # Lower(users[b].email)
    /\ (resp.op = "register_user" /\ resp.status_code = 201) =>
            \A email \in AccountEmails :
                Lower(email) = Lower(users[resp.user].email)
                    => login(email, resp.password).status_code # 401

----------------------------------------------------------------------------
(* Password hashing *)

\* C30: verify_password given a malformed stored digest returns false and
\* raises nothing to its caller, so login of a user whose stored hash is
\* malformed ends in the invalid-credentials response (401).
C30_MalformedDigestIsFailure ==
    /\ resp.op = "verify_password" =>
            /\ "raised" \notin DOMAIN resp.result
            /\ resp.hashed_password \in MalformedDigests =>
                    resp.result = [returned |-> FALSE]
    /\ (/\ resp.op = "login"
        /\ \E id \in DOMAIN users : users[id].hashed_password \in MalformedDigests)
            => resp.status_code # 500

----------------------------------------------------------------------------
(* TOTP verification *)

\* C31: verify_totp at step t accepts a code exactly when it is the code of
\* the secret for step t-1, t or t+1; a code of any other step is rejected,
\* and a malformed secret gives false, not an exception.
C31_TotpWindow ==
    resp.op = "verify_totp" =>
        /\ resp.result \in BOOLEAN
        /\ resp.result =
                (/\ resp.secret \notin MalformedSecrets
                 /\ resp.code \in {TotpAt(resp.secret, resp.at - 1),
                                   TotpAt(resp.secret, resp.at),
                                   TotpAt(resp.secret, resp.at + 1)})

\* after the clock has advanced, the code of the step before the current one
\* has just been accepted
C31_Witness ==
    /\ resp.op = "verify_totp"
    /\ ticks > 0
    /\ resp.at = now
    /\ resp.code = TotpAt(resp.secret, now - 1)
    /\ resp.result = TRUE

----------------------------------------------------------------------------
(* Password reset *)

\* C32: a password-reset token is single-use and time-bounded.  reset_password
\* with a stored, unexpired token answers 200, sets the password and clears
\* the token, so that no row holds the token afterwards; reset_password with a
\* token no row holds (a used one above all) answers 400 and leaves the users
\* table unchanged; reset_password with an expired token answers 400, clears
\* the token and leaves the password unchanged.
C32_ResetTokenSingleUse ==
    [][(resp'.op = "reset_password" /\ ticks' = ticks) =>
        LET token == resp'.email_token
            holders == {id \in DOMAIN users : users[id].reset_token = token}
        IN  /\ holders = {} =>
                /\ resp'.status_code = 400
                /\ users' = users
            /\ \A id \in holders :
                IF /\ users[id].reset_token_expires # NullText
                   /\ now < users[id].reset_token_expires.at
                THEN /\ resp'.status_code = 200
                     /\ users'[id].hashed_password = hash_password(resp'.password)
                     /\ \A other \in DOMAIN users' : users'[other].reset_token # token
                ELSE /\ resp'.status_code = 400
                     /\ users'[id].hashed_password = users[id].hashed_password
                     /\ users'[id].reset_token = NullText
                     /\ users'[id].reset_token_expires = NullText]_vars

\* alice's token has been used (her password is the one of that request: no
\* other request can change it here), and a second request with the same
\* token, asking for another password, has just been refused
C32_Witness ==
    /\ resp.op = "reset_password"
    /\ resp.email_token = AliceResetToken
    /\ resp.status_code = 400
    /\ resp.detail = "Invalid or expired reset token"
    /\ resp.password = "Passw0rd1"
    /\ users["alice"].hashed_password = hash_password("Wrong0000")
    /\ users["alice"].reset_token = NullText

----------------------------------------------------------------------------
(* MFA management racing with verify_mfa *)

\* C33: regenerate_backup_codes concurrent with a verify_mfa that consumes a
\* backup code of the same user: once regenerate has committed, the stored
\* set is the new set; the commit of a verify_mfa request that read the row
\* before that leaves the new set in place.
C33_RegenerateWinsRace ==
    [][\A r \in DOMAIN reqs : \A batch \in Batches :
        LET id == reqs[r].user
            fresh == HashedCodes(generate_backup_codes(batch))
        IN  (/\ r \notin DOMAIN reqs'
             /\ users[id].mfa_backup_codes = fresh
             /\ reqs[r].row.mfa_backup_codes # fresh)
                => users'[id].mfa_backup_codes = fresh]_vars

\* C37: in every reachable state, those reached by interleaving disable_mfa
\* with a backup-code verification of the same user included, a user with
\* mfa_enabled = false has a null secret and a null backup-code set.
C37_DisabledMeansCleared ==
    \A id \in DOMAIN users :
        ~users[id].mfa_enabled =>
            /\ users[id].mfa_secret = NullText
            /\ users[id].mfa_backup_codes = NullText

----------------------------------------------------------------------------
(* Token kinds and token owners *)

\* a token create_refresh_token made: no other token lives that long
IssuedAsRefreshToken(t) ==
    t.claims.exp - t.claims.iat = REFRESH_TOKEN_EXPIRE_DAYS

\* C34: refresh accepts only tokens issued as refresh tokens: a session token
\* or a challenge token that was handed out is refused, and no session token
\* is minted from it.
C34_RefreshNeedsRefreshToken ==
    \A t \in tokens :
        ~IssuedAsRefreshToken(t) =>
            /\ refresh_token(t).status_code # 200
            /\ Minted(refresh_token(t)) = {}

\* C35: a token authenticates only the user it was issued to: after any
\* register, update_user and delete_user operations, get_current_user and
\* refresh given a token issued to user U neither return nor mint a token for
\* another user V, also when V now holds the email U had at issue time.
C35_TokenBoundToItsUser ==
    \A t \in tokens :
        /\ get_current_user(t).status_code = 200
                => get_current_user(t).user = t.claims.user_id
        /\ \A minted \in Minted(refresh_token(t)) :
                minted.claims.user_id = t.claims.user_id

----------------------------------------------------------------------------
(* User management *)

\* C39: a superuser cannot deactivate or delete their own account:
\* toggle_user_status, update_user and delete_user called by a superuser with
\* their own id never leave that account inactive or removed.
\* (These handlers admit superusers only: where one account is the only
\* superuser, every such operation that changes the table is called by it.)
C39_NoSelfLockout ==
    [][\A id \in DOMAIN users :
        (/\ resp'.op \in {"toggle_user_status", "update_user", "delete_user"}
         /\ users[id].is_active
         /\ {u \in DOMAIN users : users[u].is_superuser} = {id})
            => (id \in DOMAIN users' /\ users'[id].is_active)]_vars

\* C40: deactivation takes effect on existing tokens: get_current_user and
\* get_current_user_optional, given a still valid token of a deactivated
\* user, do not return that user.
C40_DeactivatedNotAuthenticated ==
    (resp.op \in {"get_me", "get_current_user_optional"} /\ resp.user \in DOMAIN users)
        => users[resp.user].is_active

\* C36: no flow mints a session or refresh token for a user who is inactive
\* at the time of minting: like login and refresh, verify_mfa fails when the
\* user the challenge token names was deactivated after the challenge was
\* issued.
C36_NoTokenForInactiveUser ==
    [][(resp' # resp /\ resp'.access_token \cup resp'.refresh_token # {}) =>
        /\ resp'.user \in DOMAIN users
        /\ users[resp'.user].is_active]_vars

----------------------------------------------------------------------------
(* MFA enrolment *)

\* C38: the backup codes shown to the user are the ones stored: after
\* setup_mfa followed by a successful enable_mfa with the secret of that
\* setup, each backup code setup_mfa returned is accepted once.
C38_ShownBackupCodesAreStored ==
    [][(/\ resp.op = "setup_mfa"
        /\ resp.status_code = 200
        /\ resp'.op = "enable_mfa"
        /\ resp'.status_code = 200
        /\ resp'.user = resp.user
        /\ resp'.secret = resp.secret) =>
            \A i \in 1..Len(resp.backup_codes) :
                LET id == resp.user
                    first == verify_user_backup_code(users'[id], resp.backup_codes[i])
                    after == [users'[id] EXCEPT !.mfa_backup_codes = first.stored]
                IN  first.ok /\ ~verify_user_backup_code(after, resp.backup_codes[i]).ok]_vars

====
